---- MODULE Spec2Model ----
(***************************************************************************)
(* Violation session / de-duplication core of the PPE monitor:             *)
(*   services/violation_tracker.py   (ViolationTracker)                    *)
(*   agents/violation_collector.py   (ViolationCollector)                  *)
(*   services/async_sam_verifier.py  (AsyncSAMVerifier)                    *)
(*   api/routes/detection.py         (detect route, SAM DB callback)       *)
(*                                                                         *)
(* Time is counted in units of 10 seconds: time.time() and datetime.now()  *)
(* are the variable now, date.today() is the variable today.  Durations    *)
(* (total_duration_minutes) are kept in the same unit, un-divided, so the  *)
(* value v stands for v*10/60 minutes.  Bounding-box coordinates are       *)
(* integers; the exponential moving average is computed in integer         *)
(* arithmetic.                                                             *)
(***************************************************************************)
EXTENDS Integers, Sequences, FiniteSets, TLC

(* ---------------------------------------------------------------------- *)
(* Bounds of the model                                                     *)
(* ---------------------------------------------------------------------- *)
TickStep == 2           \* the clock advances in steps of TickStep
MaxTicks == 2           \* and runs from 0 to MaxTicks * TickStep
MaxDay == 1             \* date.today() runs from 0 to MaxDay
MaxDetections == 3      \* well-formed detections handled by the tracker
MaxRows == 2            \* session rows in the violations table
ScenarioMaxTime == 14   \* clock bound of the single-worker scenario
ScenarioMaxHist == 6    \* detections of the single-worker scenario
MaxJobs == 2            \* verification jobs submitted to the scheduler
MaxAnswers == 2         \* answers of the tracker that are kept for inspection
WorkerMaxTime == 6      \* clock bound of the one-worker shift
WorkerMaxHist == 4      \* detections of the one-worker shift
PairMaxTime == 4        \* clock bound of the two-worker shift
PairMaxDetections == 4  \* detections of the two-worker shift
CrowdMaxHist == 3       \* detections of the crowd
ThreadMaxCalls == 2     \* calls of should_store_violation per thread
MaxCloses == 2          \* calls of close_inactive_sessions that are kept
PoolMaxJobs == 3        \* verification jobs submitted to the busy pool
CloseMaxDetections == 2 \* detections before and between the closes

(* ---------------------------------------------------------------------- *)
(* Program constants                                                       *)
(* ---------------------------------------------------------------------- *)
TrackTimeout == 3       \* track_timeout_seconds = 30.0
IouNum == 3             \* iou_threshold = 0.3 = IouNum / IouDen
IouDen == 10
AlphaNum == 7           \* alpha = 0.7 = AlphaNum / AlphaDen
AlphaDen == 10
ShortCooldown == 4      \* cooldown_seconds = 40, a configured value
ScenarioCooldown == 12  \* cooldown_seconds = 120, the scenario's value

Site == "Construction Site A"
Camera == "CAM-001"
\* the camera_id of a request that names another camera
CameraB == "CAM-002"

BoxA == <<0, 0, 20, 20>>
BoxB == <<40, 0, 60, 20>>
BadBox == << >>
\* a tall worker, and boxes that cover three tenths and two tenths of it
BoxTall == <<0, 0, 10, 100>>
BoxThird == <<0, 0, 10, 30>>
BoxFifth == <<0, 0, 10, 20>>
BoxRight == <<10, 0, 20, 20>>
BoxMiddle == <<5, 0, 15, 20>>
\* bboxes of three and of five coordinates
ShortBox == <<0, 0, 20>>
LongBox == <<0, 0, 20, 20, 5>>

NoTrack == -1
NoRow == 0
None == "None"
MaxWorkers == 2         \* AsyncSAMVerifier(max_workers=2)

VARIABLES
  now,               \* time.time() / datetime.now()
  today,             \* date.today()
  cooldown_seconds,  \* ViolationTracker.cooldown_seconds
  tracks,            \* ViolationTracker.tracks : track_id -> PersonTrack
  next_track_id,     \* ViolationTracker.next_track_id
  stats,             \* ViolationTracker.stats
  rows,              \* the violations table, row id = index
  new_count,         \* per live (track, type): new_violation answers so far
  hist,              \* the scenario's detections: time and answer of each
  jobs,              \* AsyncSAMVerifier._jobs, job id = index; with each job
                     \* the position of the worker that runs it
  results,           \* AsyncSAMVerifier._results : job id -> result
  sam_stats,         \* AsyncSAMVerifier.stats
  route,             \* the position of detect_violations and its locals
  cb_calls,          \* per job: invocations of its on_complete so far
  raised,            \* the jobs whose verification call raised
  response,          \* the last answer of the detect route whose store is
                     \* allowed to fail: what was detected, what was returned
  detector           \* HybridDetector.enable_sam and the locals of detect,
                     \* with the verification calls made so far

samvars == <<jobs, results, sam_stats, route, cb_calls, raised, response,
             detector>>

vars == <<now, today, cooldown_seconds, tracks, next_track_id, stats, rows,
          new_count, hist, jobs, results, sam_stats, route, cb_calls, raised,
          response, detector>>

(* ---------------------------------------------------------------------- *)
(* Helpers                                                                 *)
(* ---------------------------------------------------------------------- *)
Max(a, b) == IF a >= b THEN a ELSE b
Min(a, b) == IF a <= b THEN a ELSE b

RECURSIVE SetToSeq(_)
SetToSeq(S) ==
  IF S = {} THEN << >>
  ELSE LET m == CHOOSE x \in S : \A y \in S : x <= y
       IN  <<m>> \o SetToSeq(S \ {m})

(* ---------------------------------------------------------------------- *)
(* PersonResult dicts as HybridDetector._create_result builds them         *)
(* ---------------------------------------------------------------------- *)
ViolationTypeOf(has_helmet, has_vest) ==
  IF has_helmet /\ has_vest THEN None
  ELSE IF ~has_helmet /\ ~has_vest THEN "both_missing"
  ELSE IF ~has_helmet THEN "no_helmet"
  ELSE "no_vest"

CreateResult(bbox, has_helmet, has_vest) ==
  [bbox |-> bbox, has_helmet |-> has_helmet, has_vest |-> has_vest,
   is_violation |-> ~(has_helmet /\ has_vest),
   violation_type |-> ViolationTypeOf(has_helmet, has_vest)]

(* ---------------------------------------------------------------------- *)
(* HybridDetector: the 5-path decision logic                               *)
(* ---------------------------------------------------------------------- *)
DecisionPaths ==
  {"FAST_SAFE", "FAST_VIOLATION", "RESCUE_HEAD", "RESCUE_BODY", "CRITICAL"}

\* the regions a call of the SAM verifier crops and inspects
Regions(call) ==
  IF call = "verify_helmet" THEN {"head"}
  ELSE IF call = "verify_vest" THEN {"torso"}
  ELSE IF call = "verify_both" THEN {"head", "torso"}
  ELSE {}

\* a router that asks for the absence signal before it asks for both items
ProcessPersonAbsenceFirst(person, person_id, enable_sam, sam_result) ==
  IF person.no_helmet_detected
  THEN [result |-> CreateResult(person.bbox, FALSE, person.vest_detected),
        path |-> "FAST_VIOLATION", sam_used |-> FALSE, calls |-> << >>]
  ELSE IF person.helmet_detected /\ person.vest_detected
  THEN [result |-> CreateResult(person.bbox, TRUE, TRUE),
        path |-> "FAST_SAFE", sam_used |-> FALSE, calls |-> << >>]
  ELSE [result |-> CreateResult(person.bbox, person.helmet_detected,
                                person.vest_detected),
        path |-> "FAST_VIOLATION", sam_used |-> FALSE, calls |-> << >>]

\* a router that never looks at enable_sam
ProcessPersonAlwaysSam(person, person_id, enable_sam, sam_result) ==
  IF person.helmet_detected /\ person.vest_detected
  THEN [result |-> CreateResult(person.bbox, TRUE, TRUE),
        path |-> "FAST_SAFE", sam_used |-> FALSE, calls |-> << >>]
  ELSE IF person.no_helmet_detected
  THEN [result |-> CreateResult(person.bbox, FALSE, person.vest_detected),
        path |-> "FAST_VIOLATION", sam_used |-> FALSE, calls |-> << >>]
  ELSE [result |-> CreateResult(person.bbox, sam_result.helmet_found,
                                sam_result.vest_found),
        path |-> "CRITICAL", sam_used |-> TRUE,
        calls |-> <<[person_id |-> person_id, call |-> "verify_both"]>>]

\* a router that checks the whole worker on the rescue-head path
ProcessPersonHeadChecksBoth(person, person_id, enable_sam, sam_result) ==
  IF person.helmet_detected /\ person.vest_detected
  THEN [result |-> CreateResult(person.bbox, TRUE, TRUE),
        path |-> "FAST_SAFE", sam_used |-> FALSE, calls |-> << >>]
  ELSE IF person.vest_detected
  THEN [result |-> CreateResult(person.bbox, sam_result.helmet_found, TRUE),
        path |-> "RESCUE_HEAD", sam_used |-> TRUE,
        calls |-> <<[person_id |-> person_id, call |-> "verify_both"]>>]
  ELSE [result |-> CreateResult(person.bbox, sam_result.helmet_found,
                                sam_result.vest_found),
        path |-> "CRITICAL", sam_used |-> TRUE,
        calls |-> <<[person_id |-> person_id, call |-> "verify_both"]>>]

\* _process_person: the tuple (PersonResult, DecisionPath, sam_was_used) and
\* the calls of the SAM verifier made on the way; sam_result is what the
\* verifier answers if it is asked
ProcessPerson(person, person_id, enable_sam, sam_result) ==
  IF person.helmet_detected /\ person.vest_detected
  THEN [result |-> CreateResult(person.bbox, TRUE, TRUE),
        path |-> "FAST_SAFE", sam_used |-> FALSE, calls |-> << >>]
  ELSE IF person.no_helmet_detected
  THEN [result |-> CreateResult(person.bbox, FALSE, person.vest_detected),
        path |-> "FAST_VIOLATION", sam_used |-> FALSE, calls |-> << >>]
  ELSE IF ~enable_sam
  THEN [result |-> CreateResult(person.bbox, person.helmet_detected,
                                person.vest_detected),
        path |-> "FAST_VIOLATION", sam_used |-> FALSE, calls |-> << >>]
  ELSE IF person.vest_detected /\ ~person.helmet_detected
  THEN [result |-> CreateResult(person.bbox, sam_result.helmet_found, TRUE),
        path |-> "RESCUE_HEAD", sam_used |-> TRUE,
        calls |-> <<[person_id |-> person_id, call |-> "verify_helmet"]>>]
  ELSE IF person.helmet_detected /\ ~person.vest_detected
  THEN [result |-> CreateResult(person.bbox, TRUE, sam_result.vest_found),
        path |-> "RESCUE_BODY", sam_used |-> TRUE,
        calls |-> <<[person_id |-> person_id, call |-> "verify_vest"]>>]
  ELSE [result |-> CreateResult(person.bbox, sam_result.helmet_found,
                                sam_result.vest_found),
        path |-> "CRITICAL", sam_used |-> TRUE,
        calls |-> <<[person_id |-> person_id, call |-> "verify_both"]>>]

\* detect, from persons_raw to the loop: nothing processed yet
StartDetect(enable_sam, persons_raw, calls) ==
  [created |-> TRUE, enable_sam |-> enable_sam, persons_raw |-> persons_raw,
   persons_processed |-> << >>, paths |-> << >>,
   path_counts |-> [p \in DecisionPaths |-> 0],
   sam_activations |-> 0, calls |-> calls]

\* one turn of the loop of detect over persons_raw
DetectLoopStep(d, sam_result) ==
  LET i == Len(d.persons_processed)
      r == ProcessPerson(d.persons_raw[i + 1], i, d.enable_sam, sam_result)
  IN  [d EXCEPT !.persons_processed = Append(@, r.result),
                !.paths = Append(@, r.path),
                !.path_counts[r.path] = @ + 1,
                !.sam_activations = IF r.sam_used THEN @ + 1 ELSE @,
                !.calls = @ \o r.calls]

\* _hybrid_detector is None: no detector has been created yet
IdleDetector == [StartDetect(TRUE, << >>, << >>) EXCEPT !.created = FALSE]

(* ---------------------------------------------------------------------- *)
(* ViolationTracker                                                        *)
(* ---------------------------------------------------------------------- *)
\* ViolationTracker.stats of a new tracker
EmptyStats ==
  [total_violations_detected |-> 0, violations_stored |-> 0,
   violations_deduplicated |-> 0, unique_persons_tracked |-> 0]

Area(b) == (b[3] - b[1]) * (b[4] - b[2])

Intersection(b1, b2) ==
  LET x1 == Max(b1[1], b2[1])
      y1 == Max(b1[2], b2[2])
      x2 == Min(b1[3], b2[3])
      y2 == Min(b1[4], b2[4])
  IN  IF x2 <= x1 \/ y2 <= y1 THEN 0 ELSE (x2 - x1) * (y2 - y1)

\* _calculate_iou as the fraction num / den (0 / 1 when the union is empty)
CalculateIou(b1, b2) ==
  LET inter == Intersection(b1, b2)
      union == Area(b1) + Area(b2) - inter
  IN  IF inter = 0 \/ union <= 0 THEN [num |-> 0, den |-> 1]
      ELSE [num |-> inter, den |-> union]

IouGreater(a, b) == a.num * b.den > b.num * a.den
\* a threshold that has to be exceeded
IouAboveThreshold(a) == a.num * IouDen > IouNum * a.den

\* iou >= self.iou_threshold
IouAtLeastThreshold(a) == a.num * IouDen >= IouNum * a.den

\* the loop keeping the last of the tracks that are equally good
RECURSIVE MatchLoopLastWins(_, _, _, _, _)
MatchLoopLastWins(trk, ids, bbox, best_iou, best_id) ==
  IF ids = << >> THEN best_id
  ELSE LET tid == Head(ids)
           iou == CalculateIou(bbox, trk[tid].bbox)
       IN  IF ~IouGreater(best_iou, iou) /\ IouAtLeastThreshold(iou)
           THEN MatchLoopLastWins(trk, Tail(ids), bbox, iou, tid)
           ELSE MatchLoopLastWins(trk, Tail(ids), bbox, best_iou, best_id)

\* _match_to_track: iterate the tracks in insertion order (ascending id),
\* keep the first one that is strictly better than the best so far
RECURSIVE MatchLoop(_, _, _, _, _)
MatchLoop(trk, ids, bbox, best_iou, best_id) ==
  IF ids = << >> THEN best_id
  ELSE LET tid == Head(ids)
           iou == CalculateIou(bbox, trk[tid].bbox)
       IN  IF IouGreater(iou, best_iou) /\ IouAtLeastThreshold(iou)
           THEN MatchLoop(trk, Tail(ids), bbox, iou, tid)
           ELSE MatchLoop(trk, Tail(ids), bbox, best_iou, best_id)

MatchToTrack(trk, bbox) ==
  MatchLoop(trk, SetToSeq(DOMAIN trk), bbox, [num |-> 0, den |-> 1], NoTrack)

\* a cleanup that removes nothing
CleanupOldTracksNever(trk, t) == trk

\* _cleanup_old_tracks
CleanupOldTracks(trk, t) ==
  LET expired == {tid \in DOMAIN trk : (t - trk[tid].last_seen) > TrackTimeout}
  IN  [tid \in (DOMAIN trk) \ expired |-> trk[tid]]

\* PersonTrack.update_bbox
UpdateBbox(track, new_bbox, t) ==
  [track EXCEPT
     !.bbox = [i \in 1..4 |->
                 (AlphaNum * new_bbox[i] + (AlphaDen - AlphaNum) * track.bbox[i])
                   \div AlphaDen],
     !.last_seen = t]

\* the cooldown measured from the last detection
IsInCooldownFromLastSeen(tv, t, cooldown) == (t - tv.last_seen) < cooldown

\* the comparison turned round
IsInCooldownReversed(tv, t, cooldown) == (t - tv.first_detected) > cooldown

\* the boundary counted as still in cooldown
IsInCooldownInclusive(tv, t, cooldown) == (t - tv.first_detected) <= cooldown

\* TrackedViolation.is_in_cooldown
IsInCooldown(tv, t, cooldown) == (t - tv.first_detected) < cooldown

NewTrackedViolation(bbox, t) ==
  [bbox |-> bbox, first_detected |-> t, last_seen |-> t]

\* every tracked violation of the track started again
AddViolationRestartsAll(violations, violation_type, bbox, t) ==
  [v \in (DOMAIN violations) \cup {violation_type} |->
     NewTrackedViolation(bbox, t)]

\* track.violations[violation_type] = TrackedViolation(...), first detection
AddViolation(violations, violation_type, bbox, t) ==
  [v \in (DOMAIN violations) \cup {violation_type} |->
     IF v = violation_type THEN NewTrackedViolation(bbox, t)
     ELSE violations[v]]

\* the expired violation forgotten instead of replaced
ResetViolationDropped(violations, violation_type, bbox, t) ==
  [v \in (DOMAIN violations) \ {violation_type} |-> violations[v]]

\* track.violations[violation_type] = TrackedViolation(...), cooldown expired
ResetViolation(violations, violation_type, bbox, t) ==
  [v \in (DOMAIN violations) \cup {violation_type} |->
     IF v = violation_type THEN NewTrackedViolation(bbox, t)
     ELSE violations[v]]

\* should_store_violation from "track = self.tracks[track_id]" on: trk1 are
\* the tracks after cleanup and matching, track the one of the detection
DecideViolation(trk1, nid, st2, track_id, track, matched, bbox, violation_type, t, cooldown) ==
  LET known == violation_type \in DOMAIN track.violations
      with(tk) == [x \in (DOMAIN trk1) \cup {track_id} |->
                     IF x = track_id THEN tk ELSE trk1[x]]
      info == [track_id |-> track_id, matched |-> matched,
               known |-> known,
               prev_first |-> IF known
                              THEN track.violations[violation_type].first_detected
                              ELSE -1,
               cleaned |-> TRUE]
  IN  IF known
      THEN
        LET existing == [track.violations[violation_type] EXCEPT
                           !.last_seen = t, !.bbox = bbox]
        IN  IF IsInCooldown(existing, t, cooldown)
            THEN info @@
                 [store |-> FALSE, reason |-> "in_cooldown",
                  ts |-> [tracks |-> with([track EXCEPT
                                !.violations[violation_type] = existing]),
                          next_track_id |-> nid,
                          stats |-> [st2 EXCEPT
                                       !.violations_deduplicated = @ + 1]]]
            ELSE info @@
                 [store |-> TRUE, reason |-> "cooldown_expired",
                  ts |-> [tracks |-> with([track EXCEPT !.violations =
                            ResetViolation(track.violations, violation_type,
                                           bbox, t)]),
                          next_track_id |-> nid,
                          stats |-> [st2 EXCEPT !.violations_stored = @ + 1]]]
      ELSE info @@
           [store |-> TRUE, reason |-> "new_violation",
            ts |-> [tracks |-> with([track EXCEPT !.violations =
                      AddViolation(track.violations, violation_type, bbox, t)]),
                    next_track_id |-> nid,
                    stats |-> [st2 EXCEPT !.violations_stored = @ + 1]]]

\* a tracker that counts a person at every detection, matched or not
TrackDetectionCountsMatched(ts, trk1, m, bbox, violation_type, t, cooldown) ==
  IF m = NoTrack
  THEN DecideViolation(trk1, ts.next_track_id + 1,
         [ts.stats EXCEPT !.total_violations_detected = @ + 1,
                          !.unique_persons_tracked = @ + 1],
         ts.next_track_id,
         [bbox |-> bbox, last_seen |-> t, violations |-> [v \in {} |-> 0]],
         FALSE, bbox, violation_type, t, cooldown)
  ELSE DecideViolation(trk1, ts.next_track_id,
         [ts.stats EXCEPT !.total_violations_detected = @ + 1,
                          !.unique_persons_tracked = @ + 1],
         m, UpdateBbox(trk1[m], bbox, t),
         TRUE, bbox, violation_type, t, cooldown)

\* should_store_violation after _match_to_track answered m on the cleaned
\* tracks trk1: a new track is made, or the matched one is updated
TrackDetection(ts, trk1, m, bbox, violation_type, t, cooldown) ==
  IF m = NoTrack
  THEN DecideViolation(trk1, ts.next_track_id + 1,
         [ts.stats EXCEPT !.total_violations_detected = @ + 1,
                          !.unique_persons_tracked = @ + 1],
         ts.next_track_id,
         [bbox |-> bbox, last_seen |-> t, violations |-> [v \in {} |-> 0]],
         FALSE, bbox, violation_type, t, cooldown)
  ELSE DecideViolation(trk1, ts.next_track_id,
         [ts.stats EXCEPT !.total_violations_detected = @ + 1],
         m, UpdateBbox(trk1[m], bbox, t),
         TRUE, bbox, violation_type, t, cooldown)

\* should_store_violation after _cleanup_old_tracks left the tracks trk1
MatchDetection(ts, trk1, bbox, violation_type, t, cooldown) ==
  TrackDetection(ts, trk1, MatchToTrack(trk1, bbox), bbox, violation_type, t,
                 cooldown)

\* a tracker that counts the detection before it looks at the bbox
ShouldStoreViolationCountsFirst(ts, bbox, violation_type, t, cooldown) ==
  IF Len(bbox) # 4
  THEN [store |-> TRUE, reason |-> "invalid_bbox",
        ts |-> [ts EXCEPT !.stats.total_violations_detected = @ + 1],
        track_id |-> NoTrack, matched |-> FALSE, known |-> FALSE,
        prev_first |-> -1, cleaned |-> FALSE]
  ELSE MatchDetection(ts, CleanupOldTracks(ts.tracks, t), bbox,
                      violation_type, t, cooldown)

\* should_store_violation on the tracker state ts = [tracks, next_track_id,
\* stats] at time t; answers the decision and the tracker state after it.
\* matched, known and prev_first say what the call found before it changed
\* anything.
ShouldStoreViolation(ts, bbox, violation_type, t, cooldown) ==
  IF Len(bbox) # 4
  THEN [store |-> TRUE, reason |-> "invalid_bbox", ts |-> ts,
        track_id |-> NoTrack, matched |-> FALSE, known |-> FALSE,
        prev_first |-> -1, cleaned |-> FALSE]
  ELSE MatchDetection(ts, CleanupOldTracks(ts.tracks, t), bbox,
                      violation_type, t, cooldown)

(* ---------------------------------------------------------------------- *)
(* ViolationCollector                                                      *)
(* ---------------------------------------------------------------------- *)
\* the query ordered by last_seen ascending
FindActiveSessionOldest(db, site, camera, violation_type, day, pref) ==
  LET cand == {i \in 1..Len(db) :
                 /\ db[i].site_location = site
                 /\ db[i].camera_id = camera
                 /\ db[i].violation_type = violation_type
                 /\ db[i].report_date = day
                 /\ db[i].is_active_session}
      top == {i \in cand : \A j \in cand : db[j].last_seen >= db[i].last_seen}
  IN  IF cand = {} THEN NoRow
      ELSE IF pref = "low" THEN CHOOSE i \in top : \A j \in top : i <= j
      ELSE CHOOSE i \in top : \A j \in top : i >= j

\* the query without the is_active_session filter
FindActiveSessionAny(db, site, camera, violation_type, day, pref) ==
  LET cand == {i \in 1..Len(db) :
                 /\ db[i].site_location = site
                 /\ db[i].camera_id = camera
                 /\ db[i].violation_type = violation_type
                 /\ db[i].report_date = day}
      top == {i \in cand : \A j \in cand : db[j].last_seen <= db[i].last_seen}
  IN  IF cand = {} THEN NoRow
      ELSE IF pref = "low" THEN CHOOSE i \in top : \A j \in top : i <= j
      ELSE CHOOSE i \in top : \A j \in top : i >= j

\* _find_active_session: the query runs against the committed table (the
\* session is created with autoflush=False); rows with equal last_seen come
\* back in an order the database chooses, pref says which end it takes.
FindActiveSession(db, site, camera, violation_type, day, pref) ==
  LET cand == {i \in 1..Len(db) :
                 /\ db[i].site_location = site
                 /\ db[i].camera_id = camera
                 /\ db[i].violation_type = violation_type
                 /\ db[i].report_date = day
                 /\ db[i].is_active_session}
      top == {i \in cand : \A j \in cand : db[j].last_seen <= db[i].last_seen}
  IN  IF cand = {} THEN NoRow
      ELSE IF pref = "low" THEN CHOOSE i \in top : \A j \in top : i <= j
      ELSE CHOOSE i \in top : \A j \in top : i >= j

\* the duration added up instead of recomputed
UpdateSessionAddsDuration(v, t) ==
  [v EXCEPT !.last_seen = t,
            !.occurrence_count = @ + 1,
            !.is_active_session = TRUE,
            !.total_duration = @ + (t - v.session_start)]

\* _update_session
UpdateSession(v, t) ==
  [v EXCEPT !.last_seen = t,
            !.occurrence_count = @ + 1,
            !.is_active_session = TRUE,
            !.total_duration = t - v.session_start]

\* _create_session
CreateSession(person, site, camera, t, day) ==
  [site_location |-> site, camera_id |-> camera,
   person_bbox |-> person.bbox,
   has_helmet |-> person.has_helmet, has_vest |-> person.has_vest,
   violation_type |-> person.violation_type,
   sam_activated |-> FALSE, processing_time_ms |-> 0,
   report_date |-> day,
   session_start |-> t, last_seen |-> t,
   occurrence_count |-> 1, total_duration |-> 0,
   is_active_session |-> TRUE]

\* One decision record per person of the detection result.
Decision(person, r, row, created) ==
  [bbox |-> person.bbox, violation_type |-> person.violation_type,
   store |-> r.store, reason |-> r.reason, track_id |-> r.track_id,
   matched |-> r.matched, known |-> r.known, prev_first |-> r.prev_first,
   cleaned |-> r.cleaned, row |-> row, created |-> created]

NotViolation ==
  [store |-> FALSE, reason |-> "not_violation", track_id |-> NoTrack,
   matched |-> FALSE, known |-> FALSE, prev_first |-> -1, cleaned |-> FALSE]

\* the body of the loop of store_detection_results for a violating person,
\* after the tracker answered r and the session lookup answered existing.
\* acc = [ts, upd, pending, touched, decisions]: the tracker state, the
\* loaded rows changed so far, the rows added so far, the touched violations
\* (a row id, or -k for the k-th added row) and the decision records.
StorePerson(person, acc, db, site, camera, t, day, r, existing) ==
  IF ~r.store
  THEN [acc EXCEPT !.ts = r.ts,
          !.decisions = Append(@, Decision(person, r, NoRow, FALSE))]
  ELSE IF existing # NoRow
  THEN [acc EXCEPT !.ts = r.ts,
          !.upd = [i \in (DOMAIN acc.upd) \cup {existing} |->
                     IF i = existing
                     THEN UpdateSession(IF existing \in DOMAIN acc.upd
                                        THEN acc.upd[existing]
                                        ELSE db[existing], t)
                     ELSE acc.upd[i]],
          !.touched = Append(@, existing),
          !.decisions = Append(@, Decision(person, r, existing, FALSE))]
  ELSE [acc EXCEPT !.ts = r.ts,
          !.pending = Append(@, CreateSession(person, site, camera, t, day)),
          !.touched = Append(@, -(Len(acc.pending) + 1)),
          !.decisions = Append(@, Decision(person, r,
                                    Len(db) + Len(acc.pending) + 1, TRUE))]

\* the session lookup of the loop: only on cooldown_expired
LookupSession(person, acc, db, site, camera, t, day, pref, r) ==
  StorePerson(person, acc, db, site, camera, t, day, r,
              IF r.reason = "cooldown_expired"
              THEN FindActiveSession(db, site, camera, person.violation_type,
                                     day, pref)
              ELSE NoRow)

\* the loop of store_detection_results over the persons
RECURSIVE StoreLoop(_, _, _, _, _, _, _, _, _)
StoreLoop(persons, acc, db, site, camera, t, day, cooldown, pref) ==
  IF persons = << >> THEN acc
  ELSE StoreLoop(Tail(persons),
         IF ~Head(persons).is_violation
         THEN [acc EXCEPT !.decisions =
                 Append(@, Decision(Head(persons), NotViolation, NoRow, FALSE))]
         ELSE LookupSession(Head(persons), acc, db, site, camera, t, day, pref,
                ShouldStoreViolation(acc.ts, Head(persons).bbox,
                                     Head(persons).violation_type, t, cooldown)),
         db, site, camera, t, day, cooldown, pref)

\* the commit of store_detection_results: the changed and the added rows;
\* touched_ids are the ids of the returned Violation objects
Commit(db, acc) ==
  [ts |-> acc.ts,
   rows |-> [i \in 1..Len(db) |->
               IF i \in DOMAIN acc.upd THEN acc.upd[i] ELSE db[i]]
            \o acc.pending,
   decisions |-> acc.decisions,
   touched_ids |-> [i \in 1..Len(acc.touched) |->
                      IF acc.touched[i] < 0
                      THEN Len(db) - acc.touched[i]
                      ELSE acc.touched[i]]]

\* store_detection_results
StoreDetectionResults(persons, ts, db, site, camera, t, day, cooldown, pref) ==
  Commit(db, StoreLoop(persons,
               [ts |-> ts, upd |-> [i \in {} |-> 0], pending |-> << >>,
                touched |-> << >>, decisions |-> << >>],
               db, site, camera, t, day, cooldown, pref))

\* a failed commit that leaves the first new row of the batch behind
CommitRaisesPartial(db, acc) ==
  [ts |-> acc.ts,
   rows |-> IF acc.pending # << >> THEN Append(db, Head(acc.pending))
            ELSE [i \in 1..Len(db) |->
                    IF i \in DOMAIN acc.upd THEN acc.upd[i] ELSE db[i]],
   decisions |-> acc.decisions,
   attempted |-> Len(acc.touched)]

\* db.commit() of store_detection_results raises: the one transaction that
\* holds the batch is rolled back, and the session is closed by get_db; the
\* tracker has already answered for every person of the cycle
CommitRaises(db, acc) ==
  [ts |-> acc.ts,
   rows |-> db,
   decisions |-> acc.decisions,
   attempted |-> Len(acc.touched)]

\* store_detection_results when its commit raises
StoreDetectionResultsRaises(persons, ts, db, site, camera, t, day, cooldown, pref) ==
  CommitRaises(db, StoreLoop(persons,
                 [ts |-> ts, upd |-> [i \in {} |-> 0], pending |-> << >>,
                  touched |-> << >>, decisions |-> << >>],
                 db, site, camera, t, day, cooldown, pref))

\* ViolationTracker.reset
Reset(ts) ==
  [tracks |-> [tid \in {} |-> 0], next_track_id |-> 0, stats |-> EmptyStats]

\* a flush that writes the whole object back
FlushRowWhole(cur, loaded, obj) == obj

\* the UPDATE a session flushes for one ORM object: only the attributes
\* that were given a new value since the object was loaded are written; cur
\* is the row as it is in the table by then
FlushRow(cur, loaded, obj) ==
  [f \in DOMAIN cur |-> IF obj[f] # loaded[f] THEN obj[f] ELSE cur[f]]

\* db.commit() of store_detection_results when other sessions may have
\* written since the rows were loaded: the changed objects are flushed,
\* the added rows inserted
FlushSession(db, loaded, acc) ==
  [i \in 1..Len(db) |->
     IF i \in DOMAIN acc.upd THEN FlushRow(db[i], loaded[i], acc.upd[i])
     ELSE db[i]] \o acc.pending

\* a close that also stamps last_seen
CloseInactiveSessionsStamps(db, site, camera, t) ==
  LET sel == {i \in 1..Len(db) :
                /\ db[i].is_active_session
                /\ (site # "" => db[i].site_location = site)
                /\ (camera # "" => db[i].camera_id = camera)}
  IN  [rows |-> [i \in 1..Len(db) |->
                   IF i \in sel
                   THEN [db[i] EXCEPT !.is_active_session = FALSE,
                                      !.last_seen = t,
                                      !.total_duration = t - db[i].session_start]
                   ELSE db[i]],
       closed |-> Cardinality(sel)]

\* a close that takes the closed sessions too
CloseInactiveSessionsAll(db, site, camera, t) ==
  LET sel == {i \in 1..Len(db) :
                /\ (site # "" => db[i].site_location = site)
                /\ (camera # "" => db[i].camera_id = camera)}
  IN  [rows |-> [i \in 1..Len(db) |->
                   IF i \in sel
                   THEN [db[i] EXCEPT !.is_active_session = FALSE,
                                      !.total_duration = t - db[i].session_start]
                   ELSE db[i]],
       closed |-> Cardinality(sel)]

\* close_inactive_sessions(site, camera); "" stands for an absent filter
CloseInactiveSessions(db, site, camera, t) ==
  LET sel == {i \in 1..Len(db) :
                /\ db[i].is_active_session
                /\ (site # "" => db[i].site_location = site)
                /\ (camera # "" => db[i].camera_id = camera)}
  IN  [rows |-> [i \in 1..Len(db) |->
                   IF i \in sel
                   THEN [db[i] EXCEPT !.is_active_session = FALSE,
                                      !.total_duration = t - db[i].session_start]
                   ELSE db[i]],
       closed |-> Cardinality(sel)]

(* ---------------------------------------------------------------------- *)
(* AsyncSAMVerifier and the SAM DB callback of the detect route            *)
(* ---------------------------------------------------------------------- *)
EmptySamStats ==
  [jobs_submitted |-> 0, jobs_completed |-> 0, jobs_failed |-> 0,
   false_positives_caught |-> 0, false_negatives_caught |-> 0,
   total_sam_latency_ms |-> 0, avg_sam_latency_ms |-> 0]

\* on_complete of a job: None, or the closure of _make_sam_db_callback
NoCallback == [callable |-> FALSE, violation_db_id |-> NoRow]
MakeSamDbCallback(violation_db_id) ==
  [callable |-> TRUE, violation_db_id |-> violation_db_id]

\* submit: the job is registered under the lock and handed to the pool.
\* completed_at -1 and the empty sequences stand for None; in_jobs says
\* that the job is in the _jobs map (cleanup_old_jobs takes it out, the
\* worker that holds the job object goes on with it).
Submit(js, st, person_id, bbox, violation_type, yolo_result, on_complete, t) ==
  LET job == [person_id |-> person_id, bbox |-> bbox,
              violation_type |-> violation_type, yolo_result |-> yolo_result,
              submitted_at |-> t, completed_at |-> -1, sam_result |-> << >>,
              on_complete |-> on_complete,
              pc |-> "queued", future |-> << >>, in_jobs |-> TRUE]
  IN  [jobs |-> Append(js, job),
       stats |-> [st EXCEPT !.jobs_submitted = @ + 1],
       job_id |-> Len(js) + 1]

\* a job that takes both items from the verifier whatever its path
RunSamJobTakesAll(job_id, job, outcome, latency) ==
  IF outcome.failed
  THEN [job_id |-> job_id, person_id |-> job.person_id,
        has_helmet |-> job.yolo_result.has_helmet,
        has_vest |-> job.yolo_result.has_vest,
        is_violation |-> job.yolo_result.is_violation,
        violation_type |-> job.violation_type,
        sam_latency_ms |-> latency,
        yolo_was_correct |-> TRUE,
        yolo_initial_violation |-> job.yolo_result.is_violation]
  ELSE
    LET has_helmet == outcome.helmet_found
        has_vest == outcome.vest_found
        is_violation == ~(has_helmet /\ has_vest)
        violation_type == IF ~is_violation THEN None
                          ELSE IF ~has_helmet /\ ~has_vest THEN "both_missing"
                          ELSE IF ~has_helmet THEN "no_helmet"
                          ELSE "no_vest"
    IN  [job_id |-> job_id, person_id |-> job.person_id,
         has_helmet |-> has_helmet, has_vest |-> has_vest,
         is_violation |-> is_violation, violation_type |-> violation_type,
         sam_latency_ms |-> latency,
         yolo_was_correct |-> (job.yolo_result.is_violation = is_violation),
         yolo_initial_violation |-> job.yolo_result.is_violation]

\* a job that refines the items but keeps the violation type it was
\* submitted with
RunSamJobKeepsType(job_id, job, outcome, latency) ==
  LET has_helmet == IF outcome.failed THEN job.yolo_result.has_helmet
                    ELSE IF job.violation_type \in {"no_helmet", "both_missing"}
                    THEN outcome.helmet_found
                    ELSE job.yolo_result.has_helmet
      has_vest == IF outcome.failed THEN job.yolo_result.has_vest
                  ELSE IF job.violation_type \in {"no_vest", "both_missing"}
                  THEN outcome.vest_found
                  ELSE job.yolo_result.has_vest
      is_violation == ~(has_helmet /\ has_vest)
  IN  [job_id |-> job_id, person_id |-> job.person_id,
       has_helmet |-> has_helmet, has_vest |-> has_vest,
       is_violation |-> is_violation,
       violation_type |-> job.violation_type,
       sam_latency_ms |-> latency,
       yolo_was_correct |-> (job.yolo_result.is_violation = is_violation),
       yolo_initial_violation |-> job.yolo_result.is_violation]

\* _run_sam_job: outcome is what the SAM verifier answers (or that it raised)
RunSamJob(job_id, job, outcome, latency) ==
  IF outcome.failed
  THEN [job_id |-> job_id, person_id |-> job.person_id,
        has_helmet |-> job.yolo_result.has_helmet,
        has_vest |-> job.yolo_result.has_vest,
        is_violation |-> job.yolo_result.is_violation,
        violation_type |-> job.violation_type,
        sam_latency_ms |-> latency,
        yolo_was_correct |-> TRUE,
        yolo_initial_violation |-> job.yolo_result.is_violation]
  ELSE
    LET has_helmet == IF job.violation_type \in {"no_helmet", "both_missing"}
                      THEN outcome.helmet_found
                      ELSE job.yolo_result.has_helmet
        has_vest == IF job.violation_type \in {"no_vest", "both_missing"}
                    THEN outcome.vest_found
                    ELSE job.yolo_result.has_vest
        is_violation == ~(has_helmet /\ has_vest)
        violation_type == IF ~is_violation THEN None
                          ELSE IF ~has_helmet /\ ~has_vest THEN "both_missing"
                          ELSE IF ~has_helmet THEN "no_helmet"
                          ELSE "no_vest"
    IN  [job_id |-> job_id, person_id |-> job.person_id,
         has_helmet |-> has_helmet, has_vest |-> has_vest,
         is_violation |-> is_violation, violation_type |-> violation_type,
         sam_latency_ms |-> latency,
         yolo_was_correct |-> (job.yolo_result.is_violation = is_violation),
         yolo_initial_violation |-> job.yolo_result.is_violation]

\* a completion that loses the result
OnJobDoneRecordLosesResult(js, res, st, job_id, result, t) ==
  [results |-> res,
   stats |-> [st EXCEPT !.jobs_completed = @ + 1],
   jobs |-> [js EXCEPT ![job_id].completed_at = t]]

\* _on_job_done, the part under the lock: the result enters _results, the
\* statistics and the job are updated
OnJobDoneRecord(js, res, st, job_id, result, t) ==
  LET completed == st.jobs_completed + 1
      total == st.total_sam_latency_ms + result.sam_latency_ms
      fp == ~result.yolo_was_correct
              /\ result.yolo_initial_violation /\ ~result.is_violation
      fn == ~result.yolo_was_correct /\ ~fp
              /\ ~result.yolo_initial_violation /\ result.is_violation
  IN  [results |-> [j \in (DOMAIN res) \cup {job_id} |->
                      IF j = job_id THEN result ELSE res[j]],
       stats |-> [st EXCEPT
                    !.jobs_completed = completed,
                    !.total_sam_latency_ms = total,
                    !.avg_sam_latency_ms = total \div Max(completed, 1),
                    !.false_positives_caught = IF fp THEN @ + 1 ELSE @,
                    !.false_negatives_caught = IF fn THEN @ + 1 ELSE @],
       jobs |-> [js EXCEPT ![job_id].completed_at = t,
                           ![job_id].sam_result = <<result>>]]

\* the keys of the _jobs map
JobsInMap(js) == {j \in 1..Len(js) : js[j].in_jobs}

\* is_complete, get_result (<< >> stands for None) and get_stats (the
\* counts of jobs)
IsComplete(res, job_id) == job_id \in DOMAIN res

GetResult(res, job_id) ==
  IF job_id \in DOMAIN res THEN <<res[job_id]>> ELSE << >>

GetStats(js, res, st) ==
  [jobs_submitted |-> st.jobs_submitted,
   jobs_completed |-> st.jobs_completed,
   jobs_failed |-> st.jobs_failed,
   pending_jobs |-> Cardinality(JobsInMap(js)) - Cardinality(DOMAIN res),
   completed_jobs |-> Cardinality(DOMAIN res)]

\* a cleanup that leaves the results behind
CleanupOldJobsKeepsResults(js, res, max_age, t) ==
  LET old_jobs == {j \in JobsInMap(js) :
                     js[j].completed_at # -1 /\ js[j].completed_at < t - max_age}
  IN  [jobs |-> [j \in 1..Len(js) |->
                   IF j \in old_jobs THEN [js[j] EXCEPT !.in_jobs = FALSE]
                   ELSE js[j]],
       results |-> res]

\* a cleanup that goes by the time of submission
CleanupOldJobsBySubmission(js, res, max_age, t) ==
  LET old_jobs == {j \in JobsInMap(js) : js[j].submitted_at < t - max_age}
  IN  [jobs |-> [j \in 1..Len(js) |->
                   IF j \in old_jobs THEN [js[j] EXCEPT !.in_jobs = FALSE]
                   ELSE js[j]],
       results |-> [j \in (DOMAIN res) \ old_jobs |-> res[j]]]

\* cleanup_old_jobs(max_age_seconds) at time t: the jobs with a completion
\* time before the cutoff leave _jobs, and their results leave _results
CleanupOldJobs(js, res, max_age, t) ==
  LET old_jobs == {j \in JobsInMap(js) :
                     js[j].completed_at # -1 /\ js[j].completed_at < t - max_age}
  IN  [jobs |-> [j \in 1..Len(js) |->
                   IF j \in old_jobs THEN [js[j] EXCEPT !.in_jobs = FALSE]
                   ELSE js[j]],
       results |-> [j \in (DOMAIN res) \ old_jobs |-> res[j]]]

\* a callback that also restarts the count of the row
OnSamCompleteResetsCount(db, violation_db_id, sam_result) ==
  IF violation_db_id \in 1..Len(db)
  THEN [db EXCEPT ![violation_db_id].has_helmet = sam_result.has_helmet,
                  ![violation_db_id].has_vest = sam_result.has_vest,
                  ![violation_db_id].sam_activated = TRUE,
                  ![violation_db_id].occurrence_count = 1]
  ELSE db

\* on_sam_complete of _make_sam_db_callback
OnSamComplete(db, violation_db_id, sam_result) ==
  IF violation_db_id # NoRow /\ violation_db_id \in 1..Len(db)
  THEN LET violation == db[violation_db_id]
       IN  [db EXCEPT ![violation_db_id] =
              [violation EXCEPT
                 !.has_helmet = sam_result.has_helmet,
                 !.has_vest = sam_result.has_vest,
                 !.violation_type = IF sam_result.violation_type # None
                                    THEN sam_result.violation_type
                                    ELSE violation.violation_type,
                 !.sam_activated = TRUE,
                 !.processing_time_ms = @ + sam_result.sam_latency_ms]]
  ELSE db

\* HybridDetector.detect_async: the fast verdict of every person, and one
\* verification job, submitted without a callback, per person that needs one
RECURSIVE DetectAsync(_, _, _, _, _, _)
DetectAsync(frame, i, js, st, sam_jobs, t) ==
  IF i > Len(frame)
  THEN [persons |-> [k \in 1..Len(frame) |-> frame[k].person],
        sam_jobs |-> sam_jobs, jobs |-> js, stats |-> st]
  ELSE IF frame[i].needs_sam
  THEN LET sub == Submit(js, st, i - 1, frame[i].person.bbox,
                         frame[i].person.violation_type, frame[i].person,
                         NoCallback, t)
       IN  DetectAsync(frame, i + 1, sub.jobs, sub.stats,
                       Append(sam_jobs, sub.job_id), t)
  ELSE DetectAsync(frame, i + 1, js, st, sam_jobs, t)

\* the fast verdict detect_async returns for a person before any
\* verification: the router's verdict with the items as YOLO detected them,
\* and whether the path asks for a verification job
FastVerdict(raw, person_id, enable_sam) ==
  LET r == ProcessPerson(raw, person_id, enable_sam,
                         [helmet_found |-> raw.helmet_detected,
                          vest_found |-> raw.vest_detected])
  IN  [person |-> r.result, needs_sam |-> r.sam_used]

\* the frame of fast verdicts detect_async works on
FastFrame(persons_raw, enable_sam) ==
  [k \in 1..Len(persons_raw) |-> FastVerdict(persons_raw[k], k - 1, enable_sam)]

\* _run_sam_job: the regions the job of a violation type has verified
JobRegions(violation_type) ==
  IF violation_type = "no_helmet" THEN Regions("verify_helmet")
  ELSE IF violation_type = "no_vest" THEN Regions("verify_vest")
  ELSE IF violation_type = "both_missing" THEN Regions("verify_both")
  ELSE {}

IdleRoute == [pc |-> "idle", sam_jobs |-> << >>, violation_db_ids |-> << >>,
              i |-> 0]

(* ---------------------------------------------------------------------- *)
(* State machine                                                           *)
(* ---------------------------------------------------------------------- *)
ViolationTypes == {"no_helmet", "no_vest", "both_missing"}

\* the persons a detection result can hold: a verdict at a place
Persons(boxes, verdicts) ==
  {CreateResult(b, hv[1], hv[2]) : b \in boxes, hv \in verdicts}

\* detection results of one or two persons standing at different places
Frames(boxes, verdicts) ==
  LET P == Persons(boxes, verdicts)
  IN  {<<p>> : p \in P}
        \cup {f \in {<<p, q>> : p \in P, q \in P} : f[1].bbox # f[2].bbox}

\* new_violation answers per live (track, type) after a detection cycle
CountNew(old, trk, decisions) ==
  [k \in {<<tid, v>> : tid \in DOMAIN trk, v \in ViolationTypes} |->
     (IF k \in DOMAIN old THEN old[k] ELSE 0)
       + Cardinality({i \in 1..Len(decisions) :
                        /\ decisions[i].track_id = k[1]
                        /\ decisions[i].violation_type = k[2]
                        /\ decisions[i].reason = "new_violation"})]

\* PersonDetection(...) of the detect routes, of the fields a PersonResult
\* has here
PersonDetection(p) ==
  [bbox |-> p.bbox, has_helmet |-> p.has_helmet, has_vest |-> p.has_vest,
   is_violation |-> p.is_violation, violation_type |-> p.violation_type]

\* DetectionResponse(success=True, persons=persons, ...); detected is the
\* detector's result and stored tells whether the store went through
DetectionResponse(detected, stored) ==
  [success |-> TRUE,
   persons |-> [k \in 1..Len(detected) |-> PersonDetection(detected[k])],
   detected |-> detected,
   stored |-> stored]

NoResponse == DetectionResponse(<< >>, TRUE)

InitWith(cooldown) ==
  /\ now = 0
  /\ today = 0
  /\ cooldown_seconds = cooldown
  /\ tracks = [tid \in {} |-> 0]
  /\ next_track_id = 0
  /\ stats = EmptyStats
  /\ rows = << >>
  /\ new_count = [k \in {} |-> 0]
  /\ hist = << >>
  /\ jobs = << >>
  /\ results = [j \in {} |-> 0]
  /\ sam_stats = EmptySamStats
  /\ route = IdleRoute
  /\ cb_calls = << >>
  /\ raised = {}
  /\ response = NoResponse
  /\ detector = IdleDetector

\* one detection cycle of the synchronous route: the detection result is
\* stored by ViolationCollector.store_detection_results
StoreResult(persons, pref) ==
  StoreDetectionResults(persons,
    [tracks |-> tracks, next_track_id |-> next_track_id, stats |-> stats],
    rows, Site, Camera, now, today, cooldown_seconds, pref)

\* two active sessions of one key were last seen at the same time: only then
\* does the order the database returns them in matter
Tied ==
  \E i, j \in 1..Len(rows) :
    /\ i # j
    /\ rows[i].is_active_session /\ rows[j].is_active_session
    /\ rows[i].last_seen = rows[j].last_seen
    /\ rows[i].violation_type = rows[j].violation_type
    /\ rows[i].report_date = rows[j].report_date
    /\ rows[i].camera_id = rows[j].camera_id

\* the state after store_detection_results answered r
StoreCycle(r, pref, max_detections, max_rows) ==
      /\ pref = "high" => Tied
      /\ r.ts.stats.total_violations_detected <= max_detections
      /\ Len(r.rows) <= max_rows
      /\ tracks' = r.ts.tracks
      /\ next_track_id' = r.ts.next_track_id
      /\ stats' = r.ts.stats
      /\ rows' = r.rows
      /\ new_count' = CountNew(new_count, r.ts.tracks, r.decisions)
      /\ UNCHANGED <<now, today, cooldown_seconds>>

\* the detection results of Spec: workers without a helmet at two places,
\* and detections whose bbox is malformed
SpecFrames == Frames({BoxA, BoxB, BadBox}, {<<FALSE, TRUE>>})

Store ==
  \E persons \in SpecFrames, pref \in {"low", "high"} :
    /\ StoreCycle(StoreResult(persons, pref), pref, MaxDetections, MaxRows)
    /\ UNCHANGED hist
    /\ UNCHANGED samvars

Close ==
  \E site \in {"", Site}, camera \in {"", Camera} :
    LET r == CloseInactiveSessions(rows, site, camera, now)
    IN  /\ rows' = r.rows
        /\ UNCHANGED <<now, today, cooldown_seconds, tracks, next_track_id,
                       stats, new_count, hist>>
        /\ UNCHANGED samvars

TickBy(step, max_time) ==
  /\ now + step <= max_time
  /\ now' = now + step
  /\ UNCHANGED <<today, cooldown_seconds, tracks, next_track_id, stats, rows,
                 new_count, hist>>
  /\ UNCHANGED samvars

Tick == TickBy(TickStep, MaxTicks * TickStep)

NextDay ==
  /\ today < MaxDay
  /\ today' = today + 1
  /\ UNCHANGED <<now, cooldown_seconds, tracks, next_track_id, stats, rows,
                 new_count, hist>>
  /\ UNCHANGED samvars

Init == InitWith(ShortCooldown)

Next == Store \/ Close \/ Tick \/ NextDay

Spec == Init /\ [][Next]_vars

(* The single-worker scenario: one worker without a helmet at one place,    *)
(* cooldown_seconds = 120, nothing else happens but the passing of time.    *)
ScenarioInit ==
  \E c \in {ShortCooldown, ScenarioCooldown} : InitWith(c)

ScenarioDetect ==
  /\ Len(hist) < ScenarioMaxHist
  /\ hist # << >> => hist[Len(hist)].time < now
  /\ \E r \in {StoreResult(<<CreateResult(BoxA, FALSE, TRUE)>>, "low")} :
       /\ StoreCycle(r, "low", ScenarioMaxHist, ScenarioMaxHist)
       /\ hist' = Append(hist, [time |-> now,
                                reason |-> r.decisions[1].reason])
  /\ UNCHANGED samvars

ScenarioTick ==
  TickBy(1, ScenarioMaxTime)

ScenarioNext == ScenarioDetect \/ ScenarioTick

ScenarioSpec == ScenarioInit /\ [][ScenarioNext]_vars

(* The detect route with a database that can fail: the store of a detection *)
(* cycle either goes through or its commit raises.                          *)
\* the state after store_detection_results raised at its commit with r
StoreCycleRaised(r, pref, max_detections) ==
  /\ pref = "high" => Tied
  /\ r.attempted > 0
  /\ r.ts.stats.total_violations_detected <= max_detections
  /\ tracks' = r.ts.tracks
  /\ next_track_id' = r.ts.next_track_id
  /\ stats' = r.ts.stats
  /\ rows' = r.rows
  /\ new_count' = CountNew(new_count, r.ts.tracks, r.decisions)
  /\ UNCHANGED <<now, today, cooldown_seconds>>

\* the store block of detect_violations (detect_from_base64 has the same):
\* the response is built from the detector's result, then the store is
\* tried and a failure of it is logged
DetectAndStore ==
  \E persons \in SpecFrames, pref \in {"low", "high"}, fails \in BOOLEAN :
    /\ IF fails
       THEN \E r \in {StoreDetectionResultsRaises(persons,
                         [tracks |-> tracks, next_track_id |-> next_track_id,
                          stats |-> stats],
                         rows, Site, Camera, now, today, cooldown_seconds,
                         pref)} :
              StoreCycleRaised(r, pref, MaxDetections)
       ELSE \E r \in {StoreResult(persons, pref)} :
              StoreCycle(r, pref, MaxDetections, MaxRows)
    /\ response' = DetectionResponse(persons, ~fails)
    /\ UNCHANGED <<hist, jobs, results, sam_stats, route, cb_calls, raised,
                   detector>>

PersistTick ==
  TickBy(TickStep, MaxTicks * TickStep)

PersistNext == DetectAndStore \/ PersistTick

PersistSpec == Init /\ [][PersistNext]_vars

(* The tracker alone: should_store_violation is asked about workers        *)
(* without a helmet whose boxes overlap fully, partly or not at all, and    *)
(* about detections whose bbox is malformed.                                *)
MatchBoxes == {BoxTall, BoxThird, BoxFifth, BoxB}

\* person.get("bbox", []) of a person whose bbox is missing or empty, or
\* has three or five coordinates
MalformedBoxes == {BadBox, ShortBox, LongBox}

\* the tracker's state as should_store_violation finds it
TrackerState ==
  [tracks |-> tracks, next_track_id |-> next_track_id, stats |-> stats]

\* should_store_violation(person, "no_helmet") for a person at bbox; hist
\* keeps the first answers
TrackDetect ==
  \E bbox \in MatchBoxes \cup MalformedBoxes :
    \E r \in {ShouldStoreViolation(TrackerState, bbox, "no_helmet", now,
                                     cooldown_seconds)} :
      /\ r.ts.stats.total_violations_detected <= MaxDetections
      /\ tracks' = r.ts.tracks
      /\ next_track_id' = r.ts.next_track_id
      /\ stats' = r.ts.stats
      /\ hist' = IF Len(hist) < MaxAnswers
                 THEN Append(hist, [bbox |-> bbox, store |-> r.store,
                                    reason |-> r.reason])
                 ELSE hist
      /\ UNCHANGED <<now, today, cooldown_seconds, rows, new_count>>
      /\ UNCHANGED samvars

TrackTick == TickBy(TickStep, MaxTicks * TickStep)

TrackNext == TrackDetect \/ TrackTick

TrackSpec == Init /\ [][TrackNext]_vars

(* Two cameras: the detect route is called with camera_id CAM-001 or       *)
(* CAM-002; every ViolationCollector takes the one global tracker.          *)
Cameras == {Camera, CameraB}

\* one worker without a helmet, at one of two places
CameraFrames == {<<CreateResult(b, FALSE, TRUE)>> : b \in {BoxA, BoxB}}

\* the decisions of a cycle, each with the camera the cycle came from
TagCamera(decisions, camera) ==
  [i \in 1..Len(decisions) |-> [camera |-> camera] @@ decisions[i]]

\* a detection cycle of the route for a frame of one camera; hist keeps the
\* decisions
CameraDetect ==
  \E camera \in Cameras, persons \in CameraFrames, pref \in {"low", "high"} :
    \E r \in {StoreDetectionResults(persons, TrackerState, rows, Site, camera,
                                    now, today, cooldown_seconds, pref)} :
      /\ StoreCycle(r, pref, MaxDetections, MaxRows)
      /\ hist' = hist \o TagCamera(r.decisions, camera)
      /\ UNCHANGED samvars

CameraTick == TickBy(TickStep, MaxTicks * TickStep)

CameraNext == CameraDetect \/ CameraTick

CameraSpec == Init /\ [][CameraNext]_vars

(* One worker over a shift: a worker standing at one place is detected    *)
(* compliant, without a helmet or without a vest, again and again.          *)
WorkerVerdicts == {<<TRUE, TRUE>>, <<FALSE, TRUE>>, <<TRUE, FALSE>>}

WorkerFrames == Frames({BoxA}, WorkerVerdicts)

\* first_detected_time of every violation type tracked on track tid
FirstDetected(trk, tid) ==
  IF tid \in DOMAIN trk
  THEN [v \in DOMAIN trk[tid].violations |->
          trk[tid].violations[v].first_detected]
  ELSE [v \in {} |-> 0]

\* what is left after a cycle, for the decision d of its person: the tracked
\* violations of every track, the first_detected_time of the violations of
\* the person's track, and the sessions that are open
AfterCycle(d, r, t) ==
  [time |-> t,
   is_violation |-> d.reason # "not_violation",
   tracked |-> {<<tid, v>> \in (DOMAIN r.ts.tracks) \X ViolationTypes :
                  v \in DOMAIN r.ts.tracks[tid].violations},
   firsts |-> FirstDetected(r.ts.tracks, d.track_id),
   open |-> {i \in 1..Len(r.rows) : r.rows[i].is_active_session}] @@ d

\* a detection cycle of the route for the worker; hist keeps the decisions
WorkerDetect ==
  /\ Len(hist) < WorkerMaxHist
  /\ hist # << >> => hist[Len(hist)].time < now
  /\ \E persons \in WorkerFrames :
       \E r \in {StoreResult(persons, "low")} :
         /\ StoreCycle(r, "low", WorkerMaxHist, WorkerMaxHist)
         /\ hist' = Append(hist, AfterCycle(r.decisions[1], r, now))
  /\ UNCHANGED samvars

WorkerTick == TickBy(1, WorkerMaxTime)

WorkerNext == WorkerDetect \/ WorkerTick

WorkerSpec == Init /\ [][WorkerNext]_vars

(* Two workers on one camera: two workers without a helmet, standing at    *)
(* two places, are detected alone or together.                              *)
PairFrames == Frames({BoxA, BoxB}, {<<FALSE, TRUE>>})

\* the decisions of a cycle, each with the time of the cycle and the table
\* the cycle found
WithTable(decisions, db, t) ==
  [i \in 1..Len(decisions) |-> [time |-> t, db |-> db] @@ decisions[i]]

\* a detection cycle of the route for the two workers; hist keeps the
\* decisions
PairDetect ==
  /\ hist # << >> => hist[Len(hist)].time < now
  /\ \E persons \in PairFrames, pref \in {"low", "high"} :
       \E r \in {StoreResult(persons, pref)} :
         /\ StoreCycle(r, pref, PairMaxDetections, PairMaxDetections)
         /\ hist' = hist \o WithTable(r.decisions, rows, now)
  /\ UNCHANGED samvars

PairTick == TickBy(1, PairMaxTime)

PairNext == PairDetect \/ PairTick

PairSpec == Init /\ [][PairNext]_vars

(* A crowd: workers without a helmet whose boxes overlap one another to    *)
(* different degrees, so that a detection can have several live tracks to   *)
(* be matched to.                                                           *)
CrowdBoxes == {BoxTall, BoxThird, BoxFifth, BoxRight, BoxMiddle, BoxB}

\* the bbox of every track
TrackBoxes(trk) == [tid \in DOMAIN trk |-> trk[tid].bbox]

\* should_store_violation(person, "no_helmet") for a person at bbox; hist
\* keeps the answers with the boxes of the tracks that were live
CrowdDetect ==
  /\ Len(hist) < CrowdMaxHist
  /\ \E bbox \in CrowdBoxes :
       \E r \in {ShouldStoreViolation(TrackerState, bbox, "no_helmet", now,
                                        cooldown_seconds)} :
         /\ tracks' = r.ts.tracks
         /\ next_track_id' = r.ts.next_track_id
         /\ stats' = r.ts.stats
         /\ hist' = Append(hist,
                      [bbox |-> bbox, matched |-> r.matched,
                       track_id |-> r.track_id,
                       live |-> TrackBoxes(CleanupOldTracks(tracks, now))])
         /\ UNCHANGED <<now, today, cooldown_seconds, rows, new_count>>
         /\ UNCHANGED samvars

CrowdTick == TickBy(TickStep, MaxTicks * TickStep)

CrowdNext == CrowdDetect \/ CrowdTick

CrowdSpec == Init /\ [][CrowdNext]_vars

(* Two threads on the shared tracker: each calls should_store_violation   *)
(* for the same worker without a helmet; the tracker takes no lock, so the  *)
(* statements of the two calls interleave.                                  *)
Threads == {1, 2}

IdleThread ==
  [pc |-> "idle", track_id |-> NoTrack, matched |-> FALSE, entered |-> 0,
   calls |-> 0]

\* the answer of a call of thread th that ends now
ThreadAnswer(th, store, reason) ==
  [thread |-> th, store |-> store, reason |-> reason,
   track_id |-> route.th[th].track_id, matched |-> route.th[th].matched,
   entered |-> route.th[th].entered, left |-> route.clock + 1, time |-> now]

\* the call of thread th is over
ThreadLeaves(th, store, reason) ==
  /\ hist' = Append(hist, ThreadAnswer(th, store, reason))
  /\ route' = [route EXCEPT !.clock = @ + 1,
                            !.th[th].pc = "idle",
                            !.th[th].track_id = NoTrack,
                            !.th[th].matched = FALSE]

ThreadInit ==
  /\ now = 0
  /\ today = 0
  /\ cooldown_seconds = ShortCooldown
  /\ tracks = [tid \in {} |-> 0]
  /\ next_track_id = 0
  /\ stats = EmptyStats
  /\ rows = << >>
  /\ new_count = [k \in {} |-> 0]
  /\ hist = << >>
  /\ jobs = << >>
  /\ results = [j \in {} |-> 0]
  /\ sam_stats = EmptySamStats
  /\ route = [clock |-> 0, th |-> [th \in Threads |-> IdleThread]]
  /\ cb_calls = << >>
  /\ raised = {}
  /\ response = NoResponse
  /\ detector = IdleDetector

\* should_store_violation up to _cleanup_old_tracks: the bbox is well
\* formed, the detection is counted, the old tracks are removed
ThreadEnter(th) ==
  /\ route.th[th].pc = "idle"
  /\ route.th[th].calls < ThreadMaxCalls
  /\ stats' = [stats EXCEPT !.total_violations_detected = @ + 1]
  /\ tracks' = CleanupOldTracks(tracks, now)
  /\ route' = [route EXCEPT !.clock = @ + 1,
                            !.th[th].pc = "match",
                            !.th[th].entered = route.clock + 1,
                            !.th[th].calls = @ + 1]
  /\ UNCHANGED <<now, today, cooldown_seconds, next_track_id, rows,
                 new_count, hist, jobs, results, sam_stats, cb_calls, raised,
                 response, detector>>

\* track_id = self._match_to_track(bbox)
ThreadMatch(th) ==
  /\ route.th[th].pc = "match"
  /\ \E m \in {MatchToTrack(tracks, BoxA)} :
       route' = [route EXCEPT !.th[th].pc = "track",
                              !.th[th].track_id = m,
                              !.th[th].matched = (m # NoTrack)]
  /\ UNCHANGED <<now, today, cooldown_seconds, tracks, next_track_id, stats,
                 rows, new_count, hist, jobs, results, sam_stats, cb_calls,
                 raised, response, detector>>

\* the track is created, or the matched track is updated; a matched track
\* that another call's cleanup has removed in between is a KeyError
ThreadTrack(th) ==
  /\ route.th[th].pc = "track"
  /\ IF route.th[th].track_id = NoTrack
     THEN /\ tracks' = [x \in (DOMAIN tracks) \cup {next_track_id} |->
                          IF x = next_track_id
                          THEN [bbox |-> BoxA, last_seen |-> now,
                                violations |-> [v \in {} |-> 0]]
                          ELSE tracks[x]]
          /\ next_track_id' = next_track_id + 1
          /\ stats' = [stats EXCEPT !.unique_persons_tracked = @ + 1]
          /\ route' = [route EXCEPT !.th[th].pc = "check",
                                    !.th[th].track_id = next_track_id]
          /\ UNCHANGED hist
     ELSE IF route.th[th].track_id \in DOMAIN tracks
     THEN /\ tracks' = [tracks EXCEPT ![route.th[th].track_id] =
                          UpdateBbox(@, BoxA, now)]
          /\ route' = [route EXCEPT !.th[th].pc = "check"]
          /\ UNCHANGED <<next_track_id, stats, hist>>
     ELSE /\ ThreadLeaves(th, FALSE, "KeyError")
          /\ UNCHANGED <<tracks, next_track_id, stats>>
  /\ UNCHANGED <<now, today, cooldown_seconds, rows, new_count, jobs, results,
                 sam_stats, cb_calls, raised, response, detector>>

\* track = self.tracks[track_id] and the look at track.violations: a
\* violation in cooldown is answered here, the others go on to the write
ThreadCheck(th) ==
  /\ route.th[th].pc = "check"
  /\ IF route.th[th].track_id \notin DOMAIN tracks
     THEN /\ ThreadLeaves(th, FALSE, "KeyError")
          /\ UNCHANGED <<tracks, stats>>
     ELSE IF "no_helmet" \notin DOMAIN tracks[route.th[th].track_id].violations
     THEN /\ route' = [route EXCEPT !.th[th].pc = "add"]
          /\ UNCHANGED <<tracks, stats, hist>>
     ELSE \E existing \in
              {[tracks[route.th[th].track_id].violations["no_helmet"] EXCEPT
                  !.last_seen = now, !.bbox = BoxA]} :
            /\ tracks' = [tracks EXCEPT
                 ![route.th[th].track_id].violations["no_helmet"] = existing]
            /\ IF IsInCooldown(existing, now, cooldown_seconds)
               THEN /\ stats' = [stats EXCEPT
                                   !.violations_deduplicated = @ + 1]
                    /\ ThreadLeaves(th, FALSE, "in_cooldown")
               ELSE /\ route' = [route EXCEPT !.th[th].pc = "reset"]
                    /\ UNCHANGED <<stats, hist>>
  /\ UNCHANGED <<now, today, cooldown_seconds, next_track_id, rows,
                 new_count, jobs, results, sam_stats, cb_calls, raised,
                 response, detector>>

\* track.violations[violation_type] = TrackedViolation(...) and the return,
\* of a new violation or of an expired one; track is the object the call
\* holds, also when the tracker has dropped it since
ThreadWrite(th) ==
  /\ route.th[th].pc \in {"add", "reset"}
  /\ tracks' =
       IF route.th[th].track_id \in DOMAIN tracks
       THEN [tracks EXCEPT ![route.th[th].track_id].violations =
               IF route.th[th].pc = "add"
               THEN AddViolation(@, "no_helmet", BoxA, now)
               ELSE ResetViolation(@, "no_helmet", BoxA, now)]
       ELSE tracks
  /\ stats' = [stats EXCEPT !.violations_stored = @ + 1]
  /\ ThreadLeaves(th, TRUE, IF route.th[th].pc = "add" THEN "new_violation"
                            ELSE "cooldown_expired")
  /\ UNCHANGED <<now, today, cooldown_seconds, next_track_id, rows,
                 new_count, jobs, results, sam_stats, cb_calls, raised,
                 response, detector>>

ThreadTick == TickBy(TickStep, MaxTicks * TickStep)

ThreadNext ==
  \/ \E th \in Threads : ThreadEnter(th)
  \/ \E th \in Threads : ThreadMatch(th)
  \/ \E th \in Threads : ThreadTrack(th)
  \/ \E th \in Threads : ThreadCheck(th)
  \/ \E th \in Threads : ThreadWrite(th)
  \/ ThreadTick

ThreadSpec == ThreadInit /\ [][ThreadNext]_vars

(* Closing sessions: workers are detected on two cameras, and            *)
(* close_inactive_sessions is called with or without filters.               *)
\* a detection cycle of the route for a frame of one camera
CloseDetect ==
  \E camera \in Cameras, persons \in CameraFrames, pref \in {"low", "high"} :
    \E r \in {StoreDetectionResults(persons, TrackerState, rows, Site, camera,
                                    now, today, cooldown_seconds, pref)} :
      /\ StoreCycle(r, pref, CloseMaxDetections, CloseMaxDetections)
      /\ UNCHANGED hist
      /\ UNCHANGED samvars

\* close_inactive_sessions(site, camera); hist keeps the call, the table it
\* found, the table it left and the number it returned
CloseSessions ==
  /\ Len(hist) < MaxCloses
  /\ \E site \in {"", Site}, camera \in {"", Camera, CameraB} :
       \E r \in {CloseInactiveSessions(rows, site, camera, now)} :
         /\ rows' = r.rows
         /\ hist' = Append(hist, [site |-> site, camera |-> camera,
                                  time |-> now, before |-> rows,
                                  after |-> r.rows, closed |-> r.closed])
  /\ UNCHANGED <<now, today, cooldown_seconds, tracks, next_track_id, stats,
                 new_count>>
  /\ UNCHANGED samvars

CloseTick == TickBy(TickStep, MaxTicks * TickStep)

CloseNext == CloseDetect \/ CloseSessions \/ CloseTick

CloseSpec == Init /\ [][CloseNext]_vars

(* The synchronous detector: detect runs every person the YOLO detector     *)
(* found through _process_person; SAM is enabled or not from the start.     *)
\* what the YOLO detector can say about a person at bbox
RawPersons(bbox) ==
  {[bbox |-> bbox, helmet_detected |-> h, vest_detected |-> v,
    no_helmet_detected |-> n] :
     h \in BOOLEAN, v \in BOOLEAN, n \in BOOLEAN}

\* persons_raw of one or two persons standing at different places
RawFrames ==
  {<<p>> : p \in RawPersons(BoxA)}
    \cup {<<p, q>> : p \in RawPersons(BoxA), q \in RawPersons(BoxB)}

\* what the SAM verifier can answer to a call
SamAnswers ==
  {[helmet_found |-> h, vest_found |-> v] : h \in BOOLEAN, v \in BOOLEAN}

RouterInit == InitWith(ShortCooldown)

\* get_hybrid_detector creates the detector, with SAM enabled or not
CreateDetector ==
  /\ ~detector.created
  /\ \E e \in BOOLEAN : detector' = StartDetect(e, << >>, << >>)
  /\ UNCHANGED <<now, today, cooldown_seconds, tracks, next_track_id, stats,
                 rows, new_count, hist, jobs, results, sam_stats, route,
                 cb_calls, raised, response>>

\* detect is called with an image: YOLO finds persons_raw
DetectStart ==
  /\ detector.created
  /\ Len(detector.persons_processed) = Len(detector.persons_raw)
  /\ \E f \in RawFrames :
       detector' = StartDetect(detector.enable_sam, f, << >>)
  /\ UNCHANGED <<now, today, cooldown_seconds, tracks, next_track_id, stats,
                 rows, new_count, hist, jobs, results, sam_stats, route,
                 cb_calls, raised, response>>

\* detect processes its next person
DetectPerson ==
  /\ Len(detector.persons_processed) < Len(detector.persons_raw)
  /\ \E sam_result \in SamAnswers :
       detector' = DetectLoopStep(detector, sam_result)
  /\ UNCHANGED <<now, today, cooldown_seconds, tracks, next_track_id, stats,
                 rows, new_count, hist, jobs, results, sam_stats, route,
                 cb_calls, raised, response>>

RouterNext == CreateDetector \/ DetectStart \/ DetectPerson

RouterSpec == RouterInit /\ [][RouterNext]_vars

(* The asynchronous route: detect_violations runs on the event loop, the    *)
(* verification jobs on the worker pool of the AsyncSAMVerifier.            *)
\* frames of the asynchronous route: a worker at BoxA with or without a
\* verification job, alone or followed by a worker at BoxB with one; all
\* without a helmet
SamFrames ==
  LET P(b) == {[person |-> CreateResult(b, FALSE, TRUE), needs_sam |-> n] :
                 n \in BOOLEAN}
  IN  {<<p>> : p \in P(BoxA)}
        \cup {f \in {<<p, q>> : p \in P(BoxA), q \in P(BoxB)} :
                f[2].needs_sam}

\* what the SAM verifier can answer
Outcomes ==
  {[failed |-> TRUE, helmet_found |-> FALSE, vest_found |-> FALSE]}
    \cup {[failed |-> FALSE, helmet_found |-> h, vest_found |-> v] :
            h \in BOOLEAN, v \in BOOLEAN}

\* detect_violations up to the wiring loop: detect_async submits the jobs,
\* store_detection_results stores the fast verdicts
DetectViolations ==
  /\ route.pc = "idle"
  /\ \E frame \in SamFrames, pref \in {"low", "high"} :
       \E d \in {DetectAsync(frame, 1, jobs, sam_stats, << >>, now)} :
       \E stored \in {StoreResult(d.persons, pref)} :
           /\ Len(d.jobs) <= MaxJobs
           /\ StoreCycle(stored, pref, MaxDetections, MaxRows)
           /\ jobs' = d.jobs
           /\ sam_stats' = d.stats
           /\ cb_calls' = [j \in 1..Len(d.jobs) |->
                             IF j <= Len(cb_calls) THEN cb_calls[j] ELSE 0]
           /\ route' = IF d.sam_jobs # << >>
                       THEN [pc |-> "wire", sam_jobs |-> d.sam_jobs,
                             violation_db_ids |-> stored.touched_ids, i |-> 1]
                       ELSE IdleRoute
           /\ UNCHANGED <<results, hist, response, detector, raised>>

\* one turn of the wiring loop of detect_violations
WireCallback ==
  /\ route.pc = "wire"
  /\ LET i == route.i
         job_id == route.sam_jobs[i]
         db_id == IF i <= Len(route.violation_db_ids)
                  THEN route.violation_db_ids[i] ELSE NoRow
     IN  /\ jobs' = IF job_id \in 1..Len(jobs)
                    THEN [jobs EXCEPT ![job_id].on_complete =
                                        MakeSamDbCallback(db_id)]
                    ELSE jobs
         /\ route' = IF i = Len(route.sam_jobs) THEN IdleRoute
                     ELSE [route EXCEPT !.i = i + 1]
  /\ UNCHANGED <<now, today, cooldown_seconds, tracks, next_track_id, stats,
                 rows, new_count, hist, response, detector, results, sam_stats, cb_calls, raised>>

\* a pool that starts a job whether or not a worker is free
JobStartAnyTime ==
  \E j \in 1..Len(jobs) :
    /\ jobs[j].pc = "queued"
    /\ jobs' = [jobs EXCEPT ![j].pc = "running"]
    /\ UNCHANGED <<now, today, cooldown_seconds, tracks, next_track_id, stats,
                   rows, new_count, hist, response, detector, results, sam_stats, route, cb_calls,
                   raised>>

Busy == {j \in 1..Len(jobs) : jobs[j].pc \in {"running", "returned", "recorded"}}

\* a free worker of the pool takes the oldest queued job
JobStart ==
  \E j \in 1..Len(jobs) :
    /\ jobs[j].pc = "queued"
    /\ \A k \in 1..(j - 1) : jobs[k].pc # "queued"
    /\ Cardinality(Busy) < MaxWorkers
    /\ jobs' = [jobs EXCEPT ![j].pc = "running"]
    /\ UNCHANGED <<now, today, cooldown_seconds, tracks, next_track_id, stats,
                   rows, new_count, hist, response, detector, results, sam_stats, route, cb_calls,
                   raised>>

\* _run_sam_job returns: the future of the job holds its result
JobRun ==
  \E j \in 1..Len(jobs), outcome \in Outcomes :
    /\ jobs[j].pc = "running"
    /\ jobs' = [jobs EXCEPT
                  ![j].pc = "returned",
                  ![j].future = <<RunSamJob(j, jobs[j], outcome, 1)>>]
    /\ raised' = IF outcome.failed THEN raised \cup {j} ELSE raised
    /\ UNCHANGED <<now, today, cooldown_seconds, tracks, next_track_id, stats,
                   rows, new_count, hist, response, detector, results, sam_stats, route, cb_calls>>

\* a completion that takes the failure branch: the job is counted as failed
\* and no result is recorded
JobRecordCountsFailure ==
  \E j \in 1..Len(jobs) :
    /\ jobs[j].pc = "returned"
    /\ jobs' = [jobs EXCEPT ![j].pc = "done"]
    /\ sam_stats' = [sam_stats EXCEPT !.jobs_failed = @ + 1]
    /\ UNCHANGED <<now, today, cooldown_seconds, tracks, next_track_id, stats,
                   rows, new_count, hist, response, detector, results, route,
                   cb_calls, raised>>

\* _on_job_done under the lock
JobRecord ==
  \E j \in 1..Len(jobs) :
    /\ jobs[j].pc = "returned"
    /\ \E r \in {OnJobDoneRecord(jobs, results, sam_stats, j,
                                  jobs[j].future[1], now)} :
           /\ jobs' = [r.jobs EXCEPT ![j].pc = "recorded"]
           /\ results' = r.results
           /\ sam_stats' = r.stats
    /\ UNCHANGED <<now, today, cooldown_seconds, tracks, next_track_id, stats,
                   rows, new_count, hist, response, detector, route, cb_calls, raised>>

\* _on_job_done after the lock: on_complete is read and, if set, called.
\* The callback may fail (its database session raises): the exception is
\* caught and logged, and the row stays as it was.
JobCallback ==
  \E j \in 1..Len(jobs), fails \in BOOLEAN :
    /\ jobs[j].pc = "recorded"
    /\ jobs' = [jobs EXCEPT ![j].pc = "done"]
    /\ IF jobs[j].on_complete.callable
       THEN /\ rows' = IF fails THEN rows
                       ELSE OnSamComplete(rows,
                              jobs[j].on_complete.violation_db_id,
                              jobs[j].future[1])
            /\ cb_calls' = [cb_calls EXCEPT ![j] = @ + 1]
       ELSE /\ ~fails
            /\ UNCHANGED <<rows, cb_calls>>
    /\ UNCHANGED <<now, today, cooldown_seconds, tracks, next_track_id, stats,
                   new_count, hist, response, detector, results, sam_stats, route, raised>>

SamTick ==
  /\ route.pc = "idle"
  /\ TickBy(TickStep, MaxTicks * TickStep)

\* close_inactive_sessions called between two requests
SamClose ==
  /\ route.pc = "idle"
  /\ rows' = CloseInactiveSessions(rows, Site, Camera, now).rows
  /\ UNCHANGED <<now, today, cooldown_seconds, tracks, next_track_id, stats,
                 new_count, hist>>
  /\ UNCHANGED samvars

(* The administrative reset: the tracker answers detections, verification   *)
(* jobs are submitted and run, and /tracking/reset is called in between.    *)
\* AsyncSAMVerifier.submit called for a worker at BoxA, without a callback
ResetSubmit ==
  /\ Len(jobs) < MaxJobs
  /\ \E vt \in {"no_helmet", "both_missing"} :
       \E sub \in {Submit(jobs, sam_stats, 0, BoxA, vt,
                          CreateResult(BoxA, FALSE, vt = "no_helmet"),
                          NoCallback, now)} :
         /\ jobs' = sub.jobs
         /\ sam_stats' = sub.stats
         /\ cb_calls' = Append(cb_calls, 0)
  /\ UNCHANGED <<now, today, cooldown_seconds, tracks, next_track_id, stats,
                 rows, new_count, hist, results, route, raised, response,
                 detector>>

\* should_store_violation for a worker without a helmet
ResetDetect ==
  \E bbox \in {BoxA, BoxB} :
    \E r \in {ShouldStoreViolation(TrackerState, bbox, "no_helmet", now,
                                     cooldown_seconds)} :
      /\ r.ts.stats.total_violations_detected <= MaxDetections
      /\ tracks' = r.ts.tracks
      /\ next_track_id' = r.ts.next_track_id
      /\ stats' = r.ts.stats
      /\ hist' = <<[bbox |-> bbox, store |-> r.store, reason |-> r.reason]>>
      /\ UNCHANGED <<now, today, cooldown_seconds, rows, new_count>>
      /\ UNCHANGED samvars

\* POST /tracking/reset
ResetTracking ==
  \E ts \in {Reset(TrackerState)} :
    /\ tracks' = ts.tracks
    /\ next_track_id' = ts.next_track_id
    /\ stats' = ts.stats
    /\ hist' = << >>
    /\ UNCHANGED <<now, today, cooldown_seconds, rows, new_count>>
    /\ UNCHANGED samvars

ResetNext ==
  \/ ResetSubmit
  \/ JobStart
  \/ JobRun
  \/ JobRecord
  \/ JobCallback
  \/ ResetDetect
  \/ ResetTracking

ResetSpec == Init /\ [][ResetNext]_vars

(* The tracker's counters: detections of workers at a few places, with     *)
(* well formed and malformed boxes, as time passes, and the administrative  *)
(* reset in between.                                                         *)
CounterNext == TrackDetect \/ TrackTick \/ ResetTracking

CounterSpec == Init /\ [][CounterNext]_vars

(* The two writers of a session row: the request path loads the row, calls *)
(* _update_session and commits; the callback of an earlier verification     *)
(* job loads the row in a session of its own, sets its fields and commits.  *)
\* the worker of the scenario: without a helmet at BoxA
RaceWorker == CreateResult(BoxA, FALSE, TRUE)

\* the state after a first detection cycle created the worker's session row
\* and its verification job was submitted and wired to that row
RaceInit ==
  \E first \in {StoreDetectionResults(<<RaceWorker>>,
                  [tracks |-> [tid \in {} |-> 0], next_track_id |-> 0,
                   stats |-> EmptyStats],
                  << >>, Site, Camera, 0, 0, ShortCooldown, "low")} :
  \E sub \in {Submit(<< >>, EmptySamStats, 0, BoxA, "no_helmet", RaceWorker,
                     MakeSamDbCallback(1), 0)} :
    /\ now = 0
    /\ today = 0
    /\ cooldown_seconds = ShortCooldown
    /\ tracks = first.ts.tracks
    /\ next_track_id = first.ts.next_track_id
    /\ stats = first.ts.stats
    /\ rows = first.rows
    /\ new_count = [k \in {} |-> 0]
    /\ hist = << >>
    /\ jobs = sub.jobs
    /\ results = [j \in {} |-> 0]
    /\ sam_stats = sub.stats
    /\ route = IdleRoute
    /\ cb_calls = <<0>>
    /\ raised = {}
    /\ response = NoResponse
    /\ detector = IdleDetector

\* store_detection_results up to its commit: the tracker answers, the
\* session is looked up and changed in memory; a cycle that touches no row
\* is over with that
RaceBegin ==
  /\ route.pc = "idle"
  /\ \E pref \in {"low", "high"} :
     \E acc \in {StoreLoop(<<RaceWorker>>,
                   [ts |-> TrackerState, upd |-> [i \in {} |-> 0],
                    pending |-> << >>, touched |-> << >>,
                    decisions |-> << >>],
                   rows, Site, Camera, now, today, cooldown_seconds, pref)} :
       /\ pref = "high" => Tied
       /\ acc.ts.stats.total_violations_detected <= MaxDetections
       /\ Len(rows) + Len(acc.pending) <= MaxRows
       /\ tracks' = acc.ts.tracks
       /\ next_track_id' = acc.ts.next_track_id
       /\ stats' = acc.ts.stats
       /\ route' = IF acc.touched = << >> THEN route
                   ELSE [pc |-> "loaded", acc |-> acc, loaded |-> rows,
                         t |-> now,
                         callback_committed |-> jobs[1].pc = "done"]
  /\ UNCHANGED <<now, today, cooldown_seconds, rows, new_count, hist, jobs,
                 results, sam_stats, cb_calls, raised, response, detector>>

\* the commit of store_detection_results
RaceCommit ==
  /\ route.pc = "loaded"
  /\ rows' = FlushSession(rows, route.loaded, route.acc)
  /\ route' = [route EXCEPT !.pc = "done"]
  /\ UNCHANGED <<now, today, cooldown_seconds, tracks, next_track_id, stats,
                 new_count, hist, jobs, results, sam_stats, cb_calls, raised,
                 response, detector>>

\* on_sam_complete: the row is loaded in a fresh session (hist holds it)
CallbackLoad ==
  \E j \in 1..Len(jobs) :
    /\ jobs[j].pc = "recorded"
    /\ jobs[j].on_complete.callable
    /\ jobs[j].on_complete.violation_db_id \in 1..Len(rows)
    /\ jobs' = [jobs EXCEPT ![j].pc = "callback"]
    /\ hist' = <<rows[jobs[j].on_complete.violation_db_id]>>
    /\ UNCHANGED <<now, today, cooldown_seconds, tracks, next_track_id, stats,
                   rows, new_count, results, sam_stats, route, cb_calls,
                   raised, response, detector>>

\* on_sam_complete: the fields are set on the loaded object and committed
CallbackCommit ==
  \E j \in 1..Len(jobs) :
    /\ jobs[j].pc = "callback"
    /\ jobs' = [jobs EXCEPT ![j].pc = "done"]
    /\ rows' = [rows EXCEPT ![jobs[j].on_complete.violation_db_id] =
                  FlushRow(@, hist[1],
                           OnSamComplete(hist, 1, jobs[j].future[1])[1])]
    /\ cb_calls' = [cb_calls EXCEPT ![j] = @ + 1]
    /\ UNCHANGED <<now, today, cooldown_seconds, tracks, next_track_id, stats,
                   new_count, hist, results, sam_stats, route, raised,
                   response, detector>>

RaceTick == TickBy(TickStep, MaxTicks * TickStep)

RaceNext ==
  \/ RaceBegin
  \/ RaceCommit
  \/ JobStart
  \/ JobRun
  \/ JobRecord
  \/ CallbackLoad
  \/ CallbackCommit
  \/ RaceTick

RaceSpec == RaceInit /\ [][RaceNext]_vars

(* The busy pool: more verification jobs are submitted than the pool has   *)
(* workers.                                                                 *)
\* AsyncSAMVerifier.submit for a worker whose helmet is in doubt, with or
\* without a callback
PoolSubmit ==
  /\ Len(jobs) < PoolMaxJobs
  /\ \E cb \in {NoCallback, MakeSamDbCallback(NoRow)} :
       \E sub \in {Submit(jobs, sam_stats, 0, BoxA, "no_helmet",
                          CreateResult(BoxA, FALSE, TRUE), cb, now)} :
         /\ jobs' = sub.jobs
         /\ sam_stats' = sub.stats
         /\ cb_calls' = Append(cb_calls, 0)
  /\ UNCHANGED <<now, today, cooldown_seconds, tracks, next_track_id, stats,
                 rows, new_count, hist, results, route, raised, response,
                 detector>>

PoolNext ==
  \/ PoolSubmit
  \/ JobStart
  \/ JobRun
  \/ JobRecord
  \/ JobCallback

PoolSpec == Init /\ [][PoolNext]_vars

\* the pool under fair scheduling: a free worker takes a waiting job, a
\* verification call returns or raises, a worker that has its result goes
\* on to record it and to call the callback
PoolFairSpec ==
  /\ Init
  /\ [][PoolNext]_vars
  /\ WF_vars(JobStart)
  /\ WF_vars(JobRun)
  /\ WF_vars(JobRecord)
  /\ WF_vars(JobCallback)

(* Retention: verification jobs are submitted, run and complete as time     *)
(* passes, and cleanup_old_jobs is called in between.                       *)
\* the retention windows cleanup_old_jobs is called with
MaxAges == {0, TickStep}

\* AsyncSAMVerifier.submit for a worker whose helmet is in doubt
CleanupSubmit ==
  /\ Len(jobs) < MaxJobs
  /\ \E sub \in {Submit(jobs, sam_stats, 0, BoxA, "no_helmet",
                        CreateResult(BoxA, FALSE, TRUE), NoCallback, now)} :
       /\ jobs' = sub.jobs
       /\ sam_stats' = sub.stats
       /\ cb_calls' = Append(cb_calls, 0)
  /\ UNCHANGED <<now, today, cooldown_seconds, tracks, next_track_id, stats,
                 rows, new_count, hist, results, route, raised, response,
                 detector>>

\* cleanup_old_jobs(max_age); hist keeps the last call
CleanupJobs ==
  /\ \E max_age \in MaxAges :
       \E r \in {CleanupOldJobs(jobs, results, max_age, now)} :
         /\ jobs' = r.jobs
         /\ results' = r.results
         /\ hist' = <<[max_age |-> max_age, time |-> now,
                       removed |-> JobsInMap(jobs) \ JobsInMap(r.jobs)]>>
  /\ UNCHANGED <<now, today, cooldown_seconds, tracks, next_track_id, stats,
                 rows, new_count, sam_stats, route, cb_calls, raised,
                 response, detector>>

CleanupTick == TickBy(TickStep, MaxTicks * TickStep)

CleanupNext ==
  \/ CleanupSubmit
  \/ JobStart
  \/ JobRun
  \/ JobRecord
  \/ JobCallback
  \/ CleanupJobs
  \/ CleanupTick

CleanupSpec == Init /\ [][CleanupNext]_vars

(* Verification jobs of every path: a job is submitted for a person whose  *)
(* fast verdict needs verification, whichever item is in doubt.             *)
\* the fast verdicts of the persons the router sends to verification
Suspects ==
  {v \in {FastVerdict(raw, 0, TRUE) : raw \in RawPersons(BoxA)} : v.needs_sam}

\* AsyncSAMVerifier.submit for the suspected violation of a person
VerifySubmit ==
  /\ Len(jobs) < MaxJobs
  /\ \E v \in Suspects :
       \E sub \in {Submit(jobs, sam_stats, 0, BoxA, v.person.violation_type,
                          v.person, NoCallback, now)} :
         /\ jobs' = sub.jobs
         /\ sam_stats' = sub.stats
         /\ cb_calls' = Append(cb_calls, 0)
  /\ UNCHANGED <<now, today, cooldown_seconds, tracks, next_track_id, stats,
                 rows, new_count, hist, results, route, raised, response,
                 detector>>

VerifyNext ==
  \/ VerifySubmit
  \/ JobStart
  \/ JobRun
  \/ JobRecord
  \/ JobCallback

VerifySpec == Init /\ [][VerifyNext]_vars

SamNext ==
  \/ DetectViolations
  \/ WireCallback
  \/ JobStart
  \/ JobRun
  \/ JobRecord
  \/ JobCallback
  \/ SamTick
  \/ SamClose

SamSpec == Init /\ [][SamNext]_vars

(* ---------------------------------------------------------------------- *)
(* Properties of the tracker and the session store                         *)
(* ---------------------------------------------------------------------- *)
TS == [tracks |-> tracks, next_track_id |-> next_track_id, stats |-> stats]

Places == {BoxA, BoxB}

\* the tracks a call at the present time keeps, and the one a bbox matches
LiveTracks == {tid \in DOMAIN tracks : ~((now - tracks[tid].last_seen) > TrackTimeout)}
StaleTracks == (DOMAIN tracks) \ LiveTracks
Overlaps(b, tid) == IouAtLeastThreshold(CalculateIou(b, tracks[tid].bbox))

\* the live tracks that overlap b best, all others overlapping it no more
BestLive(b) ==
  {tid \in LiveTracks :
     /\ Overlaps(b, tid)
     /\ \A o \in LiveTracks :
          ~IouGreater(CalculateIou(b, tracks[o].bbox),
                      CalculateIou(b, tracks[tid].bbox))}

\* C1: a detection matched to a track that holds a TrackedViolation of the
\* detection's type, at a time less than cooldown_seconds after that
\* violation's first_detected, is answered (false, "in_cooldown").
C1_InCooldown ==
  \A b \in Places, v \in ViolationTypes :
    LET r == ShouldStoreViolation(TS, b, v, now, cooldown_seconds)
    IN  \A tid \in BestLive(b) :
          (/\ r.track_id = tid
           /\ v \in DOMAIN tracks[tid].violations
           /\ now - tracks[tid].violations[v].first_detected < cooldown_seconds)
          => (~r.store /\ r.reason = "in_cooldown")

\* a violation was re-detected within its cooldown and answered in_cooldown
C1_Witness ==
  /\ stats.violations_deduplicated > 0
  /\ \E tid \in DOMAIN tracks : \E v \in DOMAIN tracks[tid].violations :
       /\ tracks[tid].violations[v].last_seen > tracks[tid].violations[v].first_detected
       /\ now - tracks[tid].violations[v].first_detected < cooldown_seconds

\* the detections of the scenario that were not suppressed
Accepted(h) == SelectSeq(h, LAMBDA e : e.reason # "in_cooldown")

\* no two consecutive detections of the scenario are more than
\* track_timeout_seconds apart
KeptAlive ==
  \A i \in 2..Len(hist) : hist[i].time - hist[i - 1].time <= TrackTimeout

TimesOf(h) == [i \in 1..Len(h) |-> h[i].time]

\* C2 as stated: cooldown 120 s, detections at 0 s, 60 s and 130 s only; the
\* first creates the session, the second is in_cooldown and leaves the store
\* alone, the third is cooldown_expired and makes the one row's count 2.
C2_Original ==
  (cooldown_seconds = ScenarioCooldown /\ Len(hist) >= 2
     /\ SubSeq(TimesOf(hist), 1, 2) = <<0, 6>>)
  => /\ hist[1].reason = "new_violation"
     /\ hist[2].reason = "in_cooldown"
     /\ Len(hist) = 2 => (Len(rows) = 1 /\ rows[1].occurrence_count = 1)
     /\ (Len(hist) = 3 /\ hist[3].time = 13)
          => /\ hist[3].reason = "cooldown_expired"
             /\ Len(rows) = 1
             /\ rows[1].occurrence_count = 2

\* C2 amended: the same scenario with the worker also detected in between,
\* never more than track_timeout_seconds apart: the first detection creates
\* the session, every detection before 120 s is in_cooldown and leaves the
\* store alone, the first detection at or after 120 s is cooldown_expired and
\* makes the count of the one row 2.
C2_Amended ==
  (cooldown_seconds = ScenarioCooldown /\ hist # << >> /\ KeptAlive)
  => LET t0 == hist[1].time
         exp == {i \in 2..Len(hist) : hist[i].time - t0 >= cooldown_seconds}
         acc == Accepted(hist)
     IN  /\ hist[1].reason = "new_violation"
         /\ \A i \in 2..Len(hist) :
              hist[i].time - t0 < cooldown_seconds => hist[i].reason = "in_cooldown"
         /\ \A i \in exp :
              (\A j \in exp : i <= j) => hist[i].reason = "cooldown_expired"
         /\ Len(rows) = 1
         /\ rows[1].session_start = t0
         /\ rows[1].is_active_session
         /\ rows[1].occurrence_count = Len(acc)
         /\ rows[1].last_seen = acc[Len(acc)].time
         /\ exp = {} => rows[1].occurrence_count = 1
         /\ (exp # {} /\ hist[Len(hist)].time - t0 < 2 * cooldown_seconds)
              => rows[1].occurrence_count = 2

\* the scenario ran: detections at 0 s, 60 s (in_cooldown) and 130 s
\* (cooldown_expired), the worker seen in between, one row of count 2
C2_Witness ==
  /\ cooldown_seconds = ScenarioCooldown
  /\ KeptAlive
  /\ Len(hist) >= 3
  /\ hist[1].time = 0
  /\ \E i \in 2..Len(hist) : hist[i].time = 6 /\ hist[i].reason = "in_cooldown"
  /\ hist[Len(hist)].time = 13
  /\ hist[Len(hist)].reason = "cooldown_expired"
  /\ Len(rows) = 1
  /\ rows[1].occurrence_count = 2

\* C3: at most one row is an active session per (site, camera,
\* violation_type, day), after any store_detection_results and
\* close_inactive_sessions calls.
C3_OneActiveSessionPerKey ==
  \A i, j \in 1..Len(rows) :
    (/\ i # j
     /\ rows[i].is_active_session
     /\ rows[j].is_active_session
     /\ rows[i].site_location = rows[j].site_location
     /\ rows[i].camera_id = rows[j].camera_id
     /\ rows[i].violation_type = rows[j].violation_type)
    => rows[i].report_date # rows[j].report_date

\* the sessions the accepted detections of the scenario describe: a
\* new_violation opens one, a cooldown_expired continues the latest one
RECURSIVE SessionsOf(_)
SessionsOf(h) ==
  IF h = << >> THEN << >>
  ELSE LET before == SessionsOf(SubSeq(h, 1, Len(h) - 1))
           e == h[Len(h)]
           n == Len(before)
       IN  IF e.reason = "new_violation"
           THEN Append(before, [start |-> e.time, last |-> e.time, count |-> 1])
           ELSE IF e.reason = "cooldown_expired"
           THEN [before EXCEPT ![n] = [start |-> before[n].start,
                                       last |-> e.time,
                                       count |-> before[n].count + 1]]
           ELSE before

\* C4: a session that took one new_violation and N-1 cooldown_expired
\* detections has occurrence_count N and a duration of (time of the last
\* accepted detection - session_start); in_cooldown detections change neither.
C4_CountAndDuration ==
  LET s == SessionsOf(hist)
  IN  /\ Len(rows) = Len(s)
      /\ \A i \in 1..Len(s) :
           /\ rows[i].occurrence_count = s[i].count
           /\ rows[i].session_start = s[i].start
           /\ rows[i].last_seen = s[i].last
           /\ rows[i].total_duration = s[i].last - s[i].start

\* a session of three accepted detections with suppressed ones in between
C4_Witness ==
  /\ stats.violations_deduplicated >= 2
  /\ hist # << >>
  /\ hist[Len(hist)].reason = "in_cooldown"
  /\ \E i \in 1..Len(rows) :
       /\ rows[i].occurrence_count = 3
       /\ rows[i].total_duration = 2 * cooldown_seconds

\* the active sessions of today for the type, as the table holds them
ActiveToday(violation_type) ==
  {i \in 1..Len(rows) :
     /\ rows[i].is_active_session
     /\ rows[i].site_location = Site
     /\ rows[i].camera_id = Camera
     /\ rows[i].violation_type = violation_type
     /\ rows[i].report_date = today}

\* C5 as stated: on cooldown_expired an existing row is updated and none is
\* created; a row is created only for new_violation.
C5_Original ==
  \A persons \in SpecFrames, pref \in {"low", "high"} :
    LET r == StoreResult(persons, pref)
    IN  \A k \in 1..Len(r.decisions) :
          LET d == r.decisions[k]
          IN  /\ d.reason = "cooldown_expired"
                   => (~d.created /\ d.row \in 1..Len(rows))
              /\ d.created => d.reason = "new_violation"

\* C5 amended: on cooldown_expired, when an active session of today exists
\* for the type, the most recently seen one is updated and none is created; a
\* row is created for new_violation, for invalid_bbox, and for
\* cooldown_expired when no such session exists.
C5_Amended ==
  \A persons \in SpecFrames, pref \in {"low", "high"} :
    LET r == StoreResult(persons, pref)
    IN  /\ \A k \in 1..Len(r.decisions) :
             LET d == r.decisions[k]
                 act == ActiveToday(d.violation_type)
             IN  /\ (d.reason = "cooldown_expired" /\ act # {})
                      => /\ ~d.created
                         /\ d.row \in act
                         /\ \A o \in act : rows[o].last_seen <= rows[d.row].last_seen
                         /\ r.rows[d.row].occurrence_count
                              > rows[d.row].occurrence_count
                 /\ d.created
                      => \/ d.reason \in {"new_violation", "invalid_bbox"}
                         \/ d.reason = "cooldown_expired" /\ act = {}
                 /\ d.reason \in {"new_violation", "invalid_bbox"} => d.created
        /\ Len(r.rows) - Len(rows)
             = Cardinality({k \in 1..Len(r.decisions) : r.decisions[k].created})

\* a cooldown expiry has updated a session row
C5_Witness ==
  /\ \E i \in 1..Len(rows) : rows[i].occurrence_count >= 2
  /\ \E tid \in DOMAIN tracks : \E v \in DOMAIN tracks[tid].violations :
       tracks[tid].violations[v].first_detected >= cooldown_seconds

\* C6: per (track, violation_type), new_violation is answered exactly once,
\* on the first detection of the type; every later detection of it on that
\* track is in_cooldown (not stored) or cooldown_expired (stored).
C6_NewViolationOnce ==
  /\ \A k \in DOMAIN new_count :
       /\ new_count[k] <= 1
       /\ (k[2] \in DOMAIN tracks[k[1]].violations) <=> (new_count[k] = 1)
  /\ \A b \in Places, v \in ViolationTypes :
       LET r == ShouldStoreViolation(TS, b, v, now, cooldown_seconds)
       IN  \A tid \in BestLive(b) :
             (r.track_id = tid /\ v \in DOMAIN tracks[tid].violations)
             => /\ r.reason \in {"in_cooldown", "cooldown_expired"}
                /\ r.store <=> (r.reason = "cooldown_expired")
                /\ v \in DOMAIN r.ts.tracks[tid].violations

\* one track took a new_violation and later a cooldown_expired answer
C6_Witness ==
  /\ stats.unique_persons_tracked = 1
  /\ stats.violations_stored = 2
  /\ stats.violations_deduplicated >= 1
  /\ \E k \in DOMAIN new_count : new_count[k] = 1

\* C10 as stated: after any should_store_violation call no track unmatched
\* for more than track_timeout_seconds is left.
C10_Original ==
  \A b \in Places \cup {BadBox}, v \in ViolationTypes :
    LET r == ShouldStoreViolation(TS, b, v, now, cooldown_seconds)
    IN  \A tid \in DOMAIN r.ts.tracks :
          ~((now - r.ts.tracks[tid].last_seen) > TrackTimeout)

\* C10 amended: a should_store_violation call with a well-formed bbox removes
\* every track unmatched for more than track_timeout_seconds; a detection at
\* the place of such a track gets a new track id, is answered new_violation
\* and makes a new session row, the earlier rows staying as they are.
C10_Amended ==
  \A b \in Places, v \in ViolationTypes :
    LET r == ShouldStoreViolation(TS, b, v, now, cooldown_seconds)
        hv == IF v = "no_helmet" THEN <<FALSE, TRUE>>
              ELSE IF v = "no_vest" THEN <<TRUE, FALSE>>
              ELSE <<FALSE, FALSE>>
        s == StoreResult(<<CreateResult(b, hv[1], hv[2])>>, "low")
    IN  /\ (DOMAIN r.ts.tracks) \cap StaleTracks = {}
        /\ \A tid \in StaleTracks :
             (Overlaps(b, tid) /\ BestLive(b) = {})
             => /\ r.track_id = next_track_id
                /\ r.track_id \notin DOMAIN tracks
                /\ r.store /\ r.reason = "new_violation"
                /\ Len(s.rows) = Len(rows) + 1
                /\ SubSeq(s.rows, 1, Len(rows)) = rows
                /\ s.rows[Len(s.rows)].occurrence_count = 1
                /\ s.rows[Len(s.rows)].session_start = now

\* a worker came back at the place of a removed track: a second track id and
\* a second session row of count 1 for the same place
C10_Witness ==
  /\ next_track_id >= 2
  /\ \E i, j \in 1..Len(rows) :
       /\ i < j
       /\ rows[i].person_bbox = rows[j].person_bbox
       /\ rows[i].person_bbox \in Places
       /\ rows[j].session_start - rows[i].last_seen > TrackTimeout
       /\ rows[i].occurrence_count = 1
       /\ rows[j].occurrence_count = 1
       /\ \E tid \in DOMAIN tracks :
            tid >= 1 /\ tracks[tid].bbox = rows[j].person_bbox

(* ---------------------------------------------------------------------- *)
(* Properties of the verification scheduler and its callback               *)
(* ---------------------------------------------------------------------- *)

\* C7: the completion callback of a job, given at submit or attached to the
\* submitted job by the detect route, is invoked exactly once, and only
\* after the job's result is in the scheduler's result map.
C7_CallbackExactlyOnce ==
  \A j \in 1..Len(jobs) :
    jobs[j].on_complete.callable
    => /\ cb_calls[j] <= 1
       /\ cb_calls[j] = 1 => j \in DOMAIN results
       /\ jobs[j].pc = "done" => cb_calls[j] = 1

\* C8: the completion callback never decreases occurrence_count and never
\* changes session_start of the row it updates; it writes only has_helmet,
\* has_vest, violation_type, sam_activated and processing_time_ms, and no
\* other row.
C8_CallbackFrame ==
  \A d \in 1..Len(rows), j \in DOMAIN results :
    LET after == OnSamComplete(rows, d, results[j])
    IN  /\ Len(after) = Len(rows)
        /\ \A i \in 1..Len(rows) : i # d => after[i] = rows[i]
        /\ after[d].occurrence_count >= rows[d].occurrence_count
        /\ after[d].session_start = rows[d].session_start
        /\ after[d] = [rows[d] EXCEPT
                         !.has_helmet = after[d].has_helmet,
                         !.has_vest = after[d].has_vest,
                         !.violation_type = after[d].violation_type,
                         !.sam_activated = after[d].sam_activated,
                         !.processing_time_ms = after[d].processing_time_ms]

\* a callback has updated a session row that a cooldown expiry had updated
C8_Witness ==
  \E d \in 1..Len(rows), j \in 1..Len(jobs) :
    /\ cb_calls[j] = 1
    /\ jobs[j].on_complete.violation_db_id = d
    /\ rows[d].sam_activated
    /\ rows[d].processing_time_ms > 0
    /\ rows[d].occurrence_count >= 2

\* C9: when the fast verdict was no_helmet and the job reports the helmet
\* found, the callback sets has_helmet on the session row, changes the row's
\* violation_type to the refined verdict and leaves occurrence_count alone,
\* and false_positives_caught has gone up by one for the job.
C9_HelmetFoundRefinesRow ==
  /\ sam_stats.false_positives_caught
       = Cardinality({k \in DOMAIN results :
                        /\ results[k].yolo_initial_violation
                        /\ ~results[k].is_violation})
  /\ \A j \in 1..Len(jobs) :
       (/\ jobs[j].pc = "recorded"
        /\ jobs[j].violation_type = "no_helmet"
        /\ jobs[j].on_complete.callable
        /\ jobs[j].on_complete.violation_db_id \in 1..Len(rows)
        /\ results[j].has_helmet)
       => LET d == jobs[j].on_complete.violation_db_id
              after == OnSamComplete(rows, d, results[j])[d]
          IN  /\ after.has_helmet
              /\ after.violation_type = results[j].violation_type
              /\ after.occurrence_count = rows[d].occurrence_count

(* ---------------------------------------------------------------------- *)
(* Session closing                                                         *)
(* ---------------------------------------------------------------------- *)
SiteFilters == {"", Site}
CameraFilters == {"", Camera}

\* C11: close_inactive_sessions called again, at the same or a later time, on
\* sessions a first call closed, closes 0 sessions and leaves every row, its
\* total duration and is_active_session included, as the first call left it;
\* no call changes a row that is closed already.
C11_CloseIdempotent ==
  \A site \in SiteFilters, camera \in CameraFilters :
    LET first == CloseInactiveSessions(rows, site, camera, now)
    IN  /\ \A i \in 1..Len(rows) :
             ~rows[i].is_active_session => first.rows[i] = rows[i]
        /\ \A t \in now..(now + TickStep) :
             LET second == CloseInactiveSessions(first.rows, site, camera, t)
             IN  /\ second.closed = 0
                 /\ second.rows = first.rows

\* a session was closed, time has passed since, and its duration is still
\* the one the close computed
C11_Witness ==
  \E i \in 1..Len(rows) :
    /\ ~rows[i].is_active_session
    /\ rows[i].total_duration < now - rows[i].session_start

\* C12: a session row that is closed is never active again: neither the
\* verification callback of a job submitted before the close nor a
\* cooldown-expiry update, nor any other step, sets is_active_session of a
\* closed row.
C12_ClosedStaysClosed ==
  [][\A i \in 1..Len(rows) :
       ~rows[i].is_active_session
       => (i <= Len(rows') /\ ~rows'[i].is_active_session)]_vars

\* a closed row that a verification callback has written, and a second row
\* that the cooldown expiry of the one track made instead of re-opening it
C12_Witness ==
  \E d, j \in 1..Len(rows) :
    /\ ~rows[d].is_active_session
    /\ rows[d].sam_activated
    /\ rows[j].is_active_session
    /\ rows[j].violation_type = rows[d].violation_type
    /\ rows[j].report_date = rows[d].report_date
    /\ rows[j].session_start >= rows[d].session_start + cooldown_seconds
    /\ next_track_id = 1

(* ---------------------------------------------------------------------- *)
(* Failures of the verification call and of the callback                   *)
(* ---------------------------------------------------------------------- *)
Raises == [failed |-> TRUE, helmet_found |-> FALSE, vest_found |-> FALSE]

\* C13: when the verification call raises, the job still completes: its
\* result is the fast verdict (has_helmet, has_vest, is_violation, the
\* submitted violation type) with yolo_was_correct true, recording it changes
\* neither false_positives_caught nor false_negatives_caught, and the job's
\* callback is still invoked.
C13_RaiseFallsBack ==
  /\ \A j \in 1..Len(jobs) :
       LET res == RunSamJob(j, jobs[j], Raises, 1)
           rec == OnJobDoneRecord(jobs, results, sam_stats, j, res, now)
       IN  /\ res.has_helmet = jobs[j].yolo_result.has_helmet
           /\ res.has_vest = jobs[j].yolo_result.has_vest
           /\ res.is_violation = jobs[j].yolo_result.is_violation
           /\ res.violation_type = jobs[j].violation_type
           /\ res.yolo_was_correct
           /\ rec.stats.false_positives_caught = sam_stats.false_positives_caught
           /\ rec.stats.false_negatives_caught = sam_stats.false_negatives_caught
           /\ rec.stats.jobs_completed = sam_stats.jobs_completed + 1
           /\ rec.results[j] = res
  /\ \A j \in raised :
       /\ jobs[j].pc \in {"recorded", "done"} => results[j] = jobs[j].future[1]
       /\ (jobs[j].pc = "done" /\ jobs[j].on_complete.callable)
            => cb_calls[j] = 1

\* the jobs whose callback was invoked and failed: it left its row unwritten
CallbackFailed ==
  {j \in 1..Len(jobs) :
     /\ cb_calls[j] = 1
     /\ jobs[j].on_complete.violation_db_id \in 1..Len(rows)
     /\ ~rows[jobs[j].on_complete.violation_db_id].sam_activated}

\* C14: an exception of a job's completion callback stays in the scheduler:
\* the job is complete (is_complete true, its result retrievable, not counted
\* as pending), its worker is free again, the pool takes the next queued job
\* and a later job whose result is recorded still gets its callback called.
C14_CallbackFailureContained ==
  /\ GetStats(jobs, results, sam_stats).pending_jobs
       = Cardinality({j \in 1..Len(jobs) :
                        jobs[j].pc \in {"queued", "running", "returned"}})
  /\ \A j \in 1..Len(jobs) :
       cb_calls[j] >= 1
       => /\ IsComplete(results, j)
          /\ results[j] = jobs[j].future[1]
          /\ jobs[j].pc = "done"
          /\ j \notin Busy
  /\ CallbackFailed # {}
       => /\ (\E k \in 1..Len(jobs) : jobs[k].pc = "queued") => ENABLED JobStart
          /\ (\E k \in 1..Len(jobs) : jobs[k].pc = "recorded")
               => ENABLED JobCallback

\* the callback of the first job failed, the second job ran after it and its
\* callback wrote its row
C14_Witness ==
  /\ 1 \in CallbackFailed
  /\ Len(jobs) = 2
  /\ jobs[2].completed_at >= jobs[1].completed_at
  /\ jobs[2].pc = "done"
  /\ cb_calls[2] = 1
  /\ jobs[2].on_complete.violation_db_id \in 1..Len(rows)
  /\ jobs[2].on_complete.violation_db_id # jobs[1].on_complete.violation_db_id
  /\ rows[jobs[2].on_complete.violation_db_id].sam_activated

(* ---------------------------------------------------------------------- *)
(* Failure of the store                                                    *)
(* ---------------------------------------------------------------------- *)
\* C15: when the commit of a detection cycle's batch raises, the violations
\* table is left exactly as it was before the cycle (no row of the cycle is
\* created, none is updated), and the response still reports success and
\* carries every person the detector found.
C15_FailedStoreAllOrNothing ==
  [][~response'.stored =>
       /\ rows' = rows
       /\ response'.success
       /\ Len(response'.persons) = Len(response'.detected)
       /\ \A k \in 1..Len(response'.detected) :
            response'.persons[k] = PersonDetection(response'.detected[k])]_vars

\* a failed store of a cycle that had both a session to update and a new
\* session to create: the tracker holds two tracks, the table one row, and
\* that row still has its first occurrence only
C15_Witness ==
  /\ ~response.stored
  /\ Len(response.persons) = 2
  /\ Len(rows) = 1
  /\ rows[1].occurrence_count = 1
  /\ stats.violations_stored >= 3

(* ---------------------------------------------------------------------- *)
(* Properties of the decision router                                       *)
(* ---------------------------------------------------------------------- *)
\* the persons detect has processed, as indices into persons_raw
Processed == 1..Len(detector.persons_processed)

\* the verification calls made for the k-th person of the frame
CallsFor(k) ==
  [i \in {j \in 1..Len(detector.calls) :
            detector.calls[j].person_id = k - 1} |-> detector.calls[i].call]

\* C16: with SAM enabled, every processed person got the verdict of the
\* first rule that matches its three signals: both items detected -> Fast
\* Safe, whatever the absence signal; else absence signal -> Fast Violation
\* with has_helmet false and has_vest as detected, without a verification
\* call; else vest only -> Rescue Head with has_vest true; else helmet only
\* -> Rescue Body with has_helmet true; else Critical.
C16_RouterRules ==
  detector.enable_sam =>
    \A k \in Processed :
      LET raw == detector.persons_raw[k]
          res == detector.persons_processed[k]
          path == detector.paths[k]
          calls == CallsFor(k)
      IN  IF raw.helmet_detected /\ raw.vest_detected
          THEN /\ path = "FAST_SAFE"
               /\ res.has_helmet /\ res.has_vest /\ ~res.is_violation
               /\ DOMAIN calls = {}
          ELSE IF raw.no_helmet_detected
          THEN /\ path = "FAST_VIOLATION"
               /\ ~res.has_helmet
               /\ res.has_vest = raw.vest_detected
               /\ res.is_violation
               /\ DOMAIN calls = {}
          ELSE IF raw.vest_detected
          THEN /\ path = "RESCUE_HEAD"
               /\ res.has_vest
               /\ Cardinality(DOMAIN calls) = 1
               /\ \A i \in DOMAIN calls : Regions(calls[i]) = {"head"}
          ELSE IF raw.helmet_detected
          THEN /\ path = "RESCUE_BODY"
               /\ res.has_helmet
               /\ Cardinality(DOMAIN calls) = 1
               /\ \A i \in DOMAIN calls : Regions(calls[i]) = {"torso"}
          ELSE /\ path = "CRITICAL"
               /\ Cardinality(DOMAIN calls) = 1
               /\ \A i \in DOMAIN calls :
                    Regions(calls[i]) = {"head", "torso"}

\* a frame whose two persons have both items detected and the absence
\* signal set, and only the absence signal set: rule 1 and rule 2 decided
C16_Witness ==
  /\ detector.enable_sam
  /\ Len(detector.persons_processed) = 2
  /\ detector.persons_raw[1].helmet_detected
  /\ detector.persons_raw[1].vest_detected
  /\ detector.persons_raw[1].no_helmet_detected
  /\ detector.persons_raw[2].no_helmet_detected
  /\ ~detector.persons_raw[2].helmet_detected
  /\ detector.paths = <<"FAST_SAFE", "FAST_VIOLATION">>

\* C17: with SAM disabled, every processed person that has not both items
\* detected and no absence signal got the verdict has_helmet =
\* helmet_detected, has_vest = vest_detected, is a violation, and no
\* verification call was made for it (none was made at all).
C17_DisabledCollapses ==
  (detector.created /\ ~detector.enable_sam) =>
    /\ detector.calls = << >>
    /\ detector.sam_activations = 0
    /\ \A k \in Processed :
         LET raw == detector.persons_raw[k]
             res == detector.persons_processed[k]
         IN  (~(raw.helmet_detected /\ raw.vest_detected)
                /\ ~raw.no_helmet_detected) =>
               /\ res.has_helmet = raw.helmet_detected
               /\ res.has_vest = raw.vest_detected
               /\ res.is_violation
               /\ detector.paths[k] = "FAST_VIOLATION"

\* SAM is disabled and a frame with a helmet-only and a nothing-detected
\* person was processed
C17_Witness ==
  /\ detector.created /\ ~detector.enable_sam
  /\ Len(detector.persons_processed) = 2
  /\ detector.persons_raw[1].helmet_detected
  /\ ~detector.persons_raw[1].vest_detected
  /\ ~detector.persons_raw[1].no_helmet_detected
  /\ ~detector.persons_raw[2].helmet_detected
  /\ ~detector.persons_raw[2].vest_detected
  /\ ~detector.persons_raw[2].no_helmet_detected
  /\ detector.persons_processed[1].violation_type = "no_vest"
  /\ detector.persons_processed[2].violation_type = "both_missing"

\* a frame of two workers at disjoint places: vest but no helmet detected,
\* then nothing detected, no absence signal for either
TwoWorkerFrame ==
  /\ detector.enable_sam
  /\ Len(detector.persons_raw) = 2
  /\ Intersection(detector.persons_raw[1].bbox,
                  detector.persons_raw[2].bbox) = 0
  /\ detector.persons_raw[1].vest_detected
  /\ ~detector.persons_raw[1].helmet_detected
  /\ ~detector.persons_raw[1].no_helmet_detected
  /\ ~detector.persons_raw[2].vest_detected
  /\ ~detector.persons_raw[2].helmet_detected
  /\ ~detector.persons_raw[2].no_helmet_detected

\* C18: for such a frame the router takes Rescue Head for the first worker
\* and Critical for the second; detect verifies each worker exactly once,
\* the first on the head region only, the second on head and torso; and
\* detect_async submits exactly one job per worker, whose verification
\* covers the head only for the first and head and torso for the second.
C18_TwoWorkers ==
  (TwoWorkerFrame /\ Len(detector.persons_processed) = 2) =>
    /\ detector.paths = <<"RESCUE_HEAD", "CRITICAL">>
    /\ Len(detector.calls) = 2
    /\ detector.calls[1].person_id = 0 /\ detector.calls[2].person_id = 1
    /\ Regions(detector.calls[1].call) = {"head"}
    /\ Regions(detector.calls[2].call) = {"head", "torso"}
    /\ \E d \in {DetectAsync(FastFrame(detector.persons_raw, TRUE), 1,
                               << >>, EmptySamStats, << >>, now)} :
         /\ Len(d.jobs) = 2
         /\ d.sam_jobs = <<1, 2>>
         /\ d.jobs[1].person_id = 0 /\ d.jobs[2].person_id = 1
         /\ d.jobs[1].bbox = detector.persons_raw[1].bbox
         /\ d.jobs[2].bbox = detector.persons_raw[2].bbox
         /\ JobRegions(d.jobs[1].violation_type) = {"head"}
         /\ JobRegions(d.jobs[2].violation_type) = {"head", "torso"}

\* the two workers were processed and SAM found the first one's helmet
C18_Witness ==
  /\ TwoWorkerFrame
  /\ Len(detector.persons_processed) = 2
  /\ detector.sam_activations = 2
  /\ ~detector.persons_processed[1].is_violation
  /\ detector.persons_processed[2].is_violation

(* ---------------------------------------------------------------------- *)
(* Matching of detections to tracks                                        *)
(* ---------------------------------------------------------------------- *)
\* the tracks that the cleanup at the start of should_store_violation keeps
LiveNow == CleanupOldTracks(tracks, now)

\* the intersection over union of two boxes is at least iou_threshold
IouReachesThreshold(b1, b2) ==
  LET inter == Intersection(b1, b2)
  IN  /\ inter > 0
      /\ inter * IouDen >= IouNum * (Area(b1) + Area(b2) - inter)

\* C19: whenever exactly one track is live, a detection is matched to it if
\* and only if the IoU of the track's bbox and the detection's bbox is at
\* least iou_threshold; a matched detection keeps the track's id and
\* allocates none, a detection below the threshold gets the next unused
\* track id, which becomes a new track.
C19_SingleTrackMatch ==
  Cardinality(DOMAIN LiveNow) = 1 =>
    \A tid \in DOMAIN LiveNow : \A bbox \in MatchBoxes :
      \E r \in {ShouldStoreViolation(TrackerState, bbox, "no_helmet", now,
                                       cooldown_seconds)} :
        IF IouReachesThreshold(LiveNow[tid].bbox, bbox)
        THEN /\ r.matched
             /\ r.track_id = tid
             /\ r.ts.next_track_id = next_track_id
             /\ DOMAIN r.ts.tracks = {tid}
        ELSE /\ ~r.matched
             /\ r.track_id = next_track_id
             /\ r.track_id \notin DOMAIN tracks
             /\ r.ts.next_track_id = next_track_id + 1
             /\ DOMAIN r.ts.tracks = {tid, r.track_id}

\* the tall worker was seen, then a box covering exactly three tenths of
\* it: the second detection was matched (one track, moved towards the
\* small box), and the track is still the only live one
C19_Witness ==
  /\ DOMAIN tracks = {0}
  /\ next_track_id = 1
  /\ stats.total_violations_detected = 2
  /\ tracks[0].bbox = <<0, 0, 10, 51>>
  /\ Cardinality(DOMAIN LiveNow) = 1

\* C20: at every state of the tracker, should_store_violation answers
\* (True, "invalid_bbox") for a detection whose bbox is missing, empty or
\* not of 4 coordinates, whatever the violation type, and leaves the
\* tracks with their tracked violations, the next track id and the
\* counters as they are; the answers the tracker gave say the same.
C20_MalformedBbox ==
  /\ \A bbox \in MalformedBoxes : \A violation_type \in ViolationTypes :
       \E r \in {ShouldStoreViolation(TrackerState, bbox, violation_type,
                                        now, cooldown_seconds)} :
         /\ r.store
         /\ r.reason = "invalid_bbox"
         /\ r.ts.tracks = tracks
         /\ r.ts.next_track_id = next_track_id
         /\ r.ts.stats = stats
  /\ \A i \in 1..Len(hist) :
       hist[i].bbox \in MalformedBoxes =>
         hist[i].store /\ hist[i].reason = "invalid_bbox"

\* a worker was tracked, then a detection of three coordinates was
\* answered: one track, one detection counted
C20_Witness ==
  /\ Len(hist) = 2
  /\ hist[1].reason = "new_violation"
  /\ hist[2].bbox = ShortBox
  /\ hist[2].reason = "invalid_bbox"
  /\ DOMAIN tracks = {0}
  /\ stats.total_violations_detected = 1
  /\ stats.violations_stored = 1

(* ---------------------------------------------------------------------- *)
(* Tracks and cameras                                                      *)
(* ---------------------------------------------------------------------- *)
\* C21: a detection is matched only to a track that a detection of the same
\* camera created, and it is answered in_cooldown only if an earlier
\* detection of the same camera, track and violation type was stored.
C21_TracksPerCamera ==
  \A i \in 1..Len(hist) :
    /\ hist[i].matched =>
         \A j \in 1..(i - 1) :
           (hist[j].track_id = hist[i].track_id /\ ~hist[j].matched) =>
             hist[j].camera = hist[i].camera
    /\ hist[i].reason = "in_cooldown" =>
         \E j \in 1..(i - 1) :
           /\ hist[j].camera = hist[i].camera
           /\ hist[j].track_id = hist[i].track_id
           /\ hist[j].violation_type = hist[i].violation_type
           /\ hist[j].store

(* ---------------------------------------------------------------------- *)
(* The request path and the verifier                                       *)
(* ---------------------------------------------------------------------- *)
\* C22: the request path never waits for verification: detect gives the
\* verdict of every person of the frame without a call of the SAM verifier
\* whose answer it has to wait for (verification is left to submitted
\* jobs).
C22_RequestNeverWaits ==
  /\ detector.calls = << >>
  /\ detector.sam_activations = 0
  /\ \A k \in Processed :
       detector.paths[k] \in {"FAST_SAFE", "FAST_VIOLATION"}

(* ---------------------------------------------------------------------- *)
(* The administrative reset                                                *)
(* ---------------------------------------------------------------------- *)
\* C23: the administrative reset sets the counters of the verification
\* statistics back to zero and clears the tracker (no track, no tracked
\* violation, counters zero), so that the next detection of any worker
\* starts a new track.
C23_ResetClearsAll ==
  [][(stats # EmptyStats /\ stats' = EmptyStats) =>
       /\ sam_stats' = EmptySamStats
       /\ DOMAIN tracks' = {}
       /\ next_track_id' = 0]_vars

(* ---------------------------------------------------------------------- *)
(* The two writers of a session row                                        *)
(* ---------------------------------------------------------------------- *)
\* the request path has updated row 1 on a cooldown expiry, and the callback
\* of the earlier job had not committed when the request loaded the row
UpdatedBeforeCallback ==
  /\ route.pc = "done"
  /\ 1 \in DOMAIN route.acc.upd
  /\ ~route.callback_committed
  /\ jobs[1].pc = "done"

\* C24: when the callback of the earlier job commits after the request path
\* loaded the row for a cooldown-expiry update, in whatever order the two
\* loads and the two commits fall, the final row has the occurrence_count,
\* last_seen and total duration of the update and the has_helmet, has_vest
\* and violation_type of the callback.
C24_WritersKeepTheirFields ==
  UpdatedBeforeCallback =>
    /\ rows[1].occurrence_count = 2
    /\ rows[1].last_seen = route.t
    /\ rows[1].total_duration = route.t - rows[1].session_start
    /\ rows[1].is_active_session
    /\ rows[1].has_helmet = results[1].has_helmet
    /\ rows[1].has_vest = results[1].has_vest
    /\ rows[1].violation_type = IF results[1].violation_type # None
                                THEN results[1].violation_type
                                ELSE "no_helmet"
    /\ rows[1].sam_activated

\* the callback loaded the row before the request committed its update and
\* committed after it, and SAM had found the helmet
C24_Witness ==
  /\ UpdatedBeforeCallback
  /\ hist # << >>
  /\ hist[1].occurrence_count = 1
  /\ rows[1].occurrence_count = 2
  /\ rows[1].has_helmet

(* ---------------------------------------------------------------------- *)
(* The row a callback is bound to                                          *)
(* ---------------------------------------------------------------------- *)
\* C25: the callback of a verification job is bound to the session row of
\* the person the job verifies (the row stored for the worker at the job's
\* bbox), never to the row of another person of the cycle.
C25_CallbackBoundToOwnRow ==
  \A j \in 1..Len(jobs) :
    (jobs[j].on_complete.callable
       /\ jobs[j].on_complete.violation_db_id # NoRow) =>
      /\ jobs[j].on_complete.violation_db_id \in 1..Len(rows)
      /\ rows[jobs[j].on_complete.violation_db_id].person_bbox = jobs[j].bbox

(* ---------------------------------------------------------------------- *)
(* A worker who becomes compliant                                          *)
(* ---------------------------------------------------------------------- *)
\* C26: when a worker with an open violation session is next detected as
\* compliant, the session is closed and the tracked violation is removed, so
\* the worker's next violation is answered new_violation and not
\* in_cooldown.
C26_CompliantClosesSession ==
  \A i \in 2..Len(hist) :
    (hist[i - 1].is_violation /\ ~hist[i].is_violation) =>
      /\ hist[i].open = {}
      /\ hist[i].tracked = {}
      /\ \A k \in (i + 1)..Len(hist) :
           (hist[k].is_violation /\ \A j \in (i + 1)..(k - 1) :
                                      ~hist[j].is_violation) =>
             hist[k].reason = "new_violation"

(* ---------------------------------------------------------------------- *)
(* The session a cooldown expiry updates                                   *)
(* ---------------------------------------------------------------------- *)
\* the active sessions of the key of decision d in the table d found
ActiveOfKey(d) ==
  {i \in 1..Len(d.db) :
     /\ d.db[i].site_location = Site
     /\ d.db[i].camera_id = Camera
     /\ d.db[i].violation_type = d.violation_type
     /\ d.db[i].report_date = today
     /\ d.db[i].is_active_session}

\* C27: on cooldown_expired the session that is updated is an active row of
\* the (site, camera, violation_type, today) that no other such row was seen
\* after, whichever worker the row was created for; with two workers of one
\* violation type active on one camera this can be the other worker's row.
C27_MostRecentRowWhoeverItIs ==
  \A i \in 1..Len(hist) :
    (hist[i].reason = "cooldown_expired" /\ ActiveOfKey(hist[i]) # {}) =>
      /\ ~hist[i].created
      /\ hist[i].row \in ActiveOfKey(hist[i])
      /\ \A j \in ActiveOfKey(hist[i]) :
           hist[i].db[j].last_seen <= hist[i].db[hist[i].row].last_seen
      /\ rows[hist[i].row].occurrence_count
           > hist[i].db[hist[i].row].occurrence_count

\* the cooldown of the worker at one place expired while the session of the
\* worker at the other place was the one seen last: the expiry went to the
\* other worker's row although the worker's own session was still active
C27_Witness ==
  \E i \in 1..Len(hist) :
    /\ hist[i].reason = "cooldown_expired"
    /\ ~hist[i].created
    /\ hist[i].row \in ActiveOfKey(hist[i])
    /\ hist[i].db[hist[i].row].person_bbox # hist[i].bbox
    /\ \E j \in ActiveOfKey(hist[i]) :
         /\ hist[i].db[j].person_bbox = hist[i].bbox
         /\ hist[i].db[j].last_seen < hist[i].db[hist[i].row].last_seen
    /\ rows[hist[i].row].occurrence_count = 2

(* ---------------------------------------------------------------------- *)
(* The cooldown window                                                     *)
(* ---------------------------------------------------------------------- *)
\* C28: the cooldown of a tracked violation runs from first_detected_time
\* and detections answered in_cooldown do not move it: on a matched track
\* that has the violation type, a detection before first_detected_time +
\* cooldown_seconds is answered (false, in_cooldown) and leaves
\* first_detected_time alone, and a detection at or after it is answered
\* (true, cooldown_expired) and sets first_detected_time to its own time.
C28_CooldownFromFirstDetected ==
  \A i \in 1..Len(hist) :
    (hist[i].matched /\ hist[i].known) =>
      IF hist[i].time < hist[i].prev_first + cooldown_seconds
      THEN /\ ~hist[i].store
           /\ hist[i].reason = "in_cooldown"
           /\ hist[i].firsts[hist[i].violation_type] = hist[i].prev_first
      ELSE /\ hist[i].store
           /\ hist[i].reason = "cooldown_expired"
           /\ hist[i].firsts[hist[i].violation_type] = hist[i].time

\* a violation first detected, answered in_cooldown shortly before the
\* window ends, answered cooldown_expired exactly at its end, and in
\* cooldown again right after, now counted from the expiry
C28_Witness ==
  /\ Len(hist) = 4
  /\ \A i \in 1..4 : hist[i].violation_type = "no_helmet"
  /\ hist[1].reason = "new_violation"
  /\ hist[2].reason = "in_cooldown"
  /\ hist[2].time > hist[1].time + 1
  /\ hist[3].reason = "cooldown_expired"
  /\ hist[3].time = hist[1].time + cooldown_seconds
  /\ hist[3].prev_first = hist[1].time
  /\ hist[4].reason = "in_cooldown"
  /\ hist[4].prev_first = hist[3].time

(* ---------------------------------------------------------------------- *)
(* Cooldowns per violation type                                            *)
(* ---------------------------------------------------------------------- *)
\* the detection before detection i on the same track, 0 if there is none
PreviousOnTrack(i) ==
  IF \E j \in 1..(i - 1) : hist[j].track_id = hist[i].track_id
  THEN CHOOSE j \in 1..(i - 1) :
         /\ hist[j].track_id = hist[i].track_id
         /\ \A k \in (j + 1)..(i - 1) : hist[k].track_id # hist[i].track_id
  ELSE 0

\* C29: a detection of a violation type the matched track does not have yet
\* is answered (true, new_violation), also when another type of the track is
\* in cooldown, and the first_detected_time of every other tracked type of
\* the track stays what it was.
C29_CooldownPerType ==
  \A i \in 1..Len(hist) :
    (hist[i].matched /\ ~hist[i].known) =>
      /\ hist[i].store
      /\ hist[i].reason = "new_violation"
      /\ hist[i].firsts[hist[i].violation_type] = hist[i].time
      /\ PreviousOnTrack(i) # 0 =>
           \A v \in DOMAIN hist[PreviousOnTrack(i)].firsts :
             /\ v \in DOMAIN hist[i].firsts
             /\ hist[i].firsts[v] = hist[PreviousOnTrack(i)].firsts[v]

\* the worker is without a helmet, then within that cooldown without a vest
\* (a new violation), then without a helmet again, still in the first
\* cooldown
C29_Witness ==
  /\ Len(hist) >= 3
  /\ hist[1].violation_type = "no_helmet" /\ hist[1].reason = "new_violation"
  /\ hist[2].violation_type = "no_vest" /\ hist[2].matched
  /\ hist[2].reason = "new_violation"
  /\ hist[2].time < hist[1].time + cooldown_seconds
  /\ hist[2].firsts["no_helmet"] = hist[1].time
  /\ hist[2].firsts["no_vest"] = hist[2].time
  /\ hist[2].time > hist[1].time
  /\ hist[3].violation_type = "no_helmet" /\ hist[3].reason = "in_cooldown"

(* ---------------------------------------------------------------------- *)
(* Matching among several tracks                                           *)
(* ---------------------------------------------------------------------- *)
\* the live tracks whose IoU with the bbox of detection d is at least
\* iou_threshold
Candidates(d) ==
  {tid \in DOMAIN d.live : IouReachesThreshold(d.live[tid], d.bbox)}

\* the IoU of track a with the bbox of detection d is greater than track b's
CloserTo(d, a, b) ==
  IouGreater(CalculateIou(d.bbox, d.live[a]), CalculateIou(d.bbox, d.live[b]))

\* C30: a detection is matched to no track only when every live track is
\* below iou_threshold; otherwise it is matched to a track at or above the
\* threshold that no other track exceeds in IoU, and of the tracks with that
\* same highest IoU to the earliest created.
C30_BestTrackFirstOnTies ==
  \A i \in 1..Len(hist) :
    IF Candidates(hist[i]) = {}
    THEN /\ ~hist[i].matched
         /\ hist[i].track_id \notin DOMAIN hist[i].live
    ELSE /\ hist[i].matched
         /\ hist[i].track_id \in Candidates(hist[i])
         /\ \A o \in Candidates(hist[i]) :
              /\ ~CloserTo(hist[i], o, hist[i].track_id)
              /\ ~CloserTo(hist[i], hist[i].track_id, o) =>
                   hist[i].track_id <= o

\* two workers side by side, then a detection that overlaps both by a
\* third: it went to the track created first
C30_Witness ==
  /\ Len(hist) = 3
  /\ Cardinality(Candidates(hist[3])) = 2
  /\ \A a, b \in Candidates(hist[3]) : ~CloserTo(hist[3], a, b)
  /\ hist[3].matched
  /\ hist[3].track_id = 0

(* ---------------------------------------------------------------------- *)
(* Two calls of the tracker at once                                        *)
(* ---------------------------------------------------------------------- *)
\* the calls that gave answers i and j ran at the same time
Interleaved(i, j) ==
  /\ hist[i].thread # hist[j].thread
  /\ hist[i].entered < hist[j].left
  /\ hist[j].entered < hist[i].left

\* C31: two calls of should_store_violation for the same worker and
\* violation type that interleave give at most one store decision and
\* allocate at most one track.
C31_OneDecisionWhenInterleaved ==
  \A i, j \in 1..Len(hist) :
    Interleaved(i, j) =>
      /\ ~(hist[i].store /\ hist[j].store)
      /\ ~(~hist[i].matched /\ ~hist[j].matched)

(* ---------------------------------------------------------------------- *)
(* What close_inactive_sessions changes                                    *)
(* ---------------------------------------------------------------------- *)
\* the sessions a call c of close_inactive_sessions is to close: the active
\* ones under its filter
ToClose(c) ==
  {i \in 1..Len(c.before) :
     /\ c.before[i].is_active_session
     /\ (c.site # "" => c.before[i].site_location = c.site)
     /\ (c.camera # "" => c.before[i].camera_id = c.camera)}

\* C32: close_inactive_sessions(site, camera) sets is_active_session to
\* false and the total duration to close time - session_start on every
\* active session under the filter and returns their number; sessions
\* outside the filter and sessions already inactive stay as they are, and
\* so do occurrence_count, session_start, last_seen and every other field
\* of the sessions it closes.
C32_CloseFrame ==
  \A k \in 1..Len(hist) :
    /\ Len(hist[k].after) = Len(hist[k].before)
    /\ hist[k].closed = Cardinality(ToClose(hist[k]))
    /\ \A i \in 1..Len(hist[k].before) :
         IF i \in ToClose(hist[k])
         THEN /\ ~hist[k].after[i].is_active_session
              /\ hist[k].after[i].total_duration
                   = hist[k].time - hist[k].before[i].session_start
              /\ hist[k].after[i].occurrence_count
                   = hist[k].before[i].occurrence_count
              /\ hist[k].after[i].session_start
                   = hist[k].before[i].session_start
              /\ hist[k].after[i].last_seen = hist[k].before[i].last_seen
              /\ [hist[k].after[i] EXCEPT !.is_active_session = TRUE,
                                          !.total_duration = 0]
                   = [hist[k].before[i] EXCEPT !.total_duration = 0]
         ELSE hist[k].after[i] = hist[k].before[i]

\* sessions on both cameras; the first call closed the one of CAM-001 after
\* it had lasted a while and left the active one of CAM-002 alone, the
\* second call, later and without a filter, closed that one and left the
\* closed one alone
C32_Witness ==
  /\ Len(hist) = 2
  /\ hist[1].camera = Camera
  /\ hist[1].closed = 1
  /\ hist[1].time > 0
  /\ \E i \in 1..Len(hist[1].before) :
       /\ hist[1].before[i].camera_id = CameraB
       /\ hist[1].before[i].is_active_session
       /\ hist[1].after[i].is_active_session
  /\ \E i \in ToClose(hist[1]) : hist[1].after[i].total_duration > 0
  /\ hist[2].camera = ""
  /\ hist[2].time > hist[1].time
  /\ hist[2].closed = 1
  /\ \E i \in 1..Len(hist[2].before) : ~hist[2].before[i].is_active_session

(* ---------------------------------------------------------------------- *)
(* The worker pool                                                         *)
(* ---------------------------------------------------------------------- *)
\* the jobs a worker is executing _run_sam_job for
Executing == {j \in 1..Len(jobs) : jobs[j].pc = "running"}

\* C33: at any time at most max_workers verification jobs are executing; a
\* job submitted while all workers are busy waits in the pool, and none is
\* dropped: every submitted job stays known to the pool, and a waiting job
\* goes nowhere but to a worker.
C33_PoolBounded ==
  /\ [](/\ Cardinality(Executing) <= MaxWorkers
        /\ Cardinality(Busy) <= MaxWorkers
        /\ sam_stats.jobs_submitted = Len(jobs))
  /\ [][/\ Len(jobs') >= Len(jobs)
        /\ \A j \in 1..Len(jobs) :
             jobs[j].pc = "queued" => jobs'[j].pc \in {"queued", "running"}]_vars

\* both workers are executing a job and a third job waits
C33_Witness ==
  /\ Len(jobs) = 3
  /\ Cardinality(Executing) = MaxWorkers
  /\ \E j \in 1..Len(jobs) : jobs[j].pc = "queued"

(* ---------------------------------------------------------------------- *)
(* Retention of completed jobs                                             *)
(* ---------------------------------------------------------------------- *)
\* job j is complete and its completion is more than max_age before t
PastRetention(j, max_age, t) ==
  /\ IsComplete(results, j)
  /\ jobs[j].completed_at < t - max_age

\* C34: cleanup_old_jobs(max_age) removes exactly the jobs that are complete
\* and were completed more than max_age ago, with their results: a job that
\* has not completed or completed within the window stays with its result
\* as it is, and for a removed job get_result answers None and is_complete
\* false.
C34_CleanupExactlyOld ==
  [][hist' # hist =>
       \A j \in 1..Len(jobs) :
         IF jobs[j].in_jobs /\ PastRetention(j, hist'[1].max_age, now)
         THEN /\ ~jobs'[j].in_jobs
              /\ GetResult(results', j) = << >>
              /\ ~IsComplete(results', j)
              /\ j \in hist'[1].removed
         ELSE /\ jobs'[j] = jobs[j]
              /\ GetResult(results', j) = GetResult(results, j)
              /\ j \notin hist'[1].removed]_vars

\* the first job completed long ago and was removed by a cleanup with a
\* retention window, the second completed within the window and is still
\* there with its result
C34_Witness ==
  /\ hist # << >>
  /\ hist[1].time = now
  /\ hist[1].max_age = TickStep
  /\ hist[1].removed = {1}
  /\ ~jobs[1].in_jobs
  /\ ~IsComplete(results, 1)
  /\ Len(jobs) = 2
  /\ jobs[2].in_jobs
  /\ IsComplete(results, 2)
  /\ jobs[2].completed_at >= now - TickStep

(* ---------------------------------------------------------------------- *)
(* What a verification job verifies                                        *)
(* ---------------------------------------------------------------------- *)
\* what the verifier can answer when it does not raise
Answers == {o \in Outcomes : ~o.failed}

\* the job's result takes exactly the items of its path from the verifier's
\* answer o and the others from the fast verdict
PathItems(job, r, o) ==
  /\ job.violation_type = "no_helmet" =>
       /\ r.has_helmet = o.helmet_found
       /\ r.has_vest = job.yolo_result.has_vest
  /\ job.violation_type = "no_vest" =>
       /\ r.has_vest = o.vest_found
       /\ r.has_helmet = job.yolo_result.has_helmet
  /\ job.violation_type = "both_missing" =>
       /\ r.has_helmet = o.helmet_found
       /\ r.has_vest = o.vest_found
  /\ r.yolo_initial_violation = job.yolo_result.is_violation
  /\ r.yolo_was_correct = (job.yolo_result.is_violation = r.is_violation)

\* C35: a verification job verifies only the region(s) of its path and
\* keeps the fast verdict for the rest: a job suspected no_helmet takes
\* has_helmet from the head verification and has_vest from the fast
\* verdict, a job suspected no_vest takes has_vest from the torso
\* verification and has_helmet from the fast verdict, a job suspected
\* both_missing takes both from the verification, and yolo_was_correct says
\* whether the fast verdict and the refined one agree on is_violation.
C35_JobVerifiesItsPath ==
  \A j \in 1..Len(jobs) :
    /\ jobs[j].violation_type \in ViolationTypes
    /\ JobRegions(jobs[j].violation_type)
         = IF jobs[j].violation_type = "no_helmet" THEN {"head"}
           ELSE IF jobs[j].violation_type = "no_vest" THEN {"torso"}
           ELSE {"head", "torso"}
    /\ \A o \in Answers :
         PathItems(jobs[j], RunSamJob(j, jobs[j], o, 1), o)
    /\ (jobs[j].future # << >> /\ j \notin raised) =>
         \E o \in Answers : PathItems(jobs[j], jobs[j].future[1], o)

\* a job suspected of no vest found the vest: its recorded result has the
\* helmet of the fast verdict and the vest of the verification, and the
\* fast verdict was not correct; a job suspected of no helmet found none
C35_Witness ==
  /\ Len(jobs) = 2
  /\ jobs[1].violation_type = "no_vest"
  /\ IsComplete(results, 1)
  /\ 1 \notin raised
  /\ results[1].has_vest /\ results[1].has_helmet
  /\ ~results[1].yolo_was_correct
  /\ jobs[2].violation_type = "no_helmet"
  /\ IsComplete(results, 2)
  /\ 2 \notin raised
  /\ ~results[2].has_helmet /\ results[2].has_vest
  /\ results[2].yolo_was_correct

(* ---------------------------------------------------------------------- *)
(* Every job completes                                                     *)
(* ---------------------------------------------------------------------- *)
\* C36: under fair scheduling, the verification calls returning or raising,
\* every submitted job is eventually complete: is_complete answers true and
\* get_result (which wait_for polls) its result, whether or not its
\* verification raised or its callback failed.
C36_EveryJobCompletes ==
  \A j \in 1..PoolMaxJobs :
    (Len(jobs) >= j) ~> (IsComplete(results, j) /\ GetResult(results, j) # << >>)

\* three jobs for two workers are all complete and their workers are done
\* with them; the verification of one raised and one had a callback
C36_Witness ==
  /\ Len(jobs) = PoolMaxJobs
  /\ \A j \in 1..Len(jobs) : IsComplete(results, j) /\ jobs[j].pc = "done"
  /\ 3 \in raised
  /\ \E j \in 1..Len(jobs) : cb_calls[j] = 1

(* ---------------------------------------------------------------------- *)
(* Suppressed detections and stored evidence                               *)
(* ---------------------------------------------------------------------- *)
\* a session row stored for the worker at bbox and the violation type
EvidenceStored(bbox, violation_type) ==
  \E i \in 1..Len(rows) :
    /\ rows[i].person_bbox = bbox
    /\ rows[i].violation_type = violation_type

\* C37: whenever should_store_violation answers in_cooldown for a
\* detection, a session row is stored for that worker's violation: the
\* tracker never suppresses a violation of which nothing was stored, also
\* after a detection cycle whose store failed.
C37_SuppressedOnlyIfStored ==
  \A bbox \in {BoxA, BoxB} :
    ShouldStoreViolation(TrackerState, bbox, "no_helmet", now,
                         cooldown_seconds).reason = "in_cooldown"
      => EvidenceStored(bbox, "no_helmet")

(* ---------------------------------------------------------------------- *)
(* Scheduler accounting                                                    *)
(* ---------------------------------------------------------------------- *)
\* the jobs of the _jobs map that have no recorded result
Unrecorded(js, res) == {j \in JobsInMap(js) : j \notin DOMAIN res}

\* what one completion adds to the two accuracy counters together, for a
\* result with the given flags
CaughtBy(js, res, st, job_id, result, t) ==
  LET after == OnJobDoneRecord(js, res, st, job_id, result, t).stats
  IN  (after.false_positives_caught + after.false_negatives_caught)
        - (st.false_positives_caught + st.false_negatives_caught)

\* the results a completion may be given: any verdict against any fast
\* verdict
AnyFlags(result) ==
  {[result EXCEPT !.yolo_was_correct = c, !.yolo_initial_violation = y,
                  !.is_violation = v] : c, y, v \in BOOLEAN}

\* C38: under any interleaving of submit, completion and cleanup_old_jobs,
\* every job id with a recorded result is a job of the scheduler;
\* pending_jobs of get_stats is the number of the scheduler's jobs without
\* a recorded result and is never negative;
\* jobs_completed + jobs_failed <= jobs_submitted; the two accuracy
\* counters together never exceed jobs_completed; and a completion adds at
\* most 1 to at most one of the two counters, while no other step changes
\* them.
C38_SchedulerAccounting ==
  /\ [](/\ DOMAIN results \subseteq JobsInMap(jobs)
        /\ GetStats(jobs, results, sam_stats).pending_jobs
             = Cardinality(Unrecorded(jobs, results))
        /\ GetStats(jobs, results, sam_stats).pending_jobs >= 0
        /\ sam_stats.jobs_completed + sam_stats.jobs_failed
             <= sam_stats.jobs_submitted
        /\ sam_stats.false_positives_caught
             + sam_stats.false_negatives_caught <= sam_stats.jobs_completed
        /\ \A j \in 1..Len(jobs) :
             jobs[j].pc = "returned" =>
               \A result \in AnyFlags(jobs[j].future[1]) :
                 CaughtBy(jobs, results, sam_stats, j, result, now)
                   \in {0, 1})
  /\ [][/\ sam_stats'.false_positives_caught
             \in {sam_stats.false_positives_caught,
                  sam_stats.false_positives_caught + 1}
        /\ sam_stats'.false_negatives_caught
             \in {sam_stats.false_negatives_caught,
                  sam_stats.false_negatives_caught + 1}
        /\ (sam_stats'.false_positives_caught
              + sam_stats'.false_negatives_caught)
             - (sam_stats.false_positives_caught
                  + sam_stats.false_negatives_caught)
             <= sam_stats'.jobs_completed - sam_stats.jobs_completed
        /\ sam_stats'.jobs_completed - sam_stats.jobs_completed \in {0, 1}
       ]_vars

\* one job was completed as a false positive and cleaned up, and another
\* one is still pending
C38_Witness ==
  /\ hist # << >>
  /\ hist[1].removed # {}
  /\ sam_stats.false_positives_caught = 1
  /\ GetStats(jobs, results, sam_stats).pending_jobs = 1
  /\ sam_stats.jobs_submitted = 2

(* ---------------------------------------------------------------------- *)
(* Consistency of a verification result                                    *)
(* ---------------------------------------------------------------------- *)
\* the verdict of a result follows from its two items
Consistent(r) ==
  /\ r.is_violation = ~(r.has_helmet /\ r.has_vest)
  /\ (r.violation_type = None) = ~r.is_violation
  /\ r.is_violation =>
       r.violation_type = IF ~r.has_helmet /\ ~r.has_vest THEN "both_missing"
                          ELSE IF ~r.has_helmet THEN "no_helmet"
                          ELSE "no_vest"

\* C39: every verification result, the fallback result of a verification
\* that raised included, is consistent: is_violation = not (has_helmet and
\* has_vest), violation_type is null exactly when is_violation is false,
\* and otherwise it is both_missing, no_helmet or no_vest according to the
\* missing items. Checked for whatever a job may return, for the results
\* the workers produced and recorded, and for the results of the
\* synchronous detector.
C39_ResultConsistent ==
  /\ \A j \in 1..Len(jobs) :
       /\ \A o \in Outcomes : Consistent(RunSamJob(j, jobs[j], o, 1))
       /\ jobs[j].future # << >> => Consistent(jobs[j].future[1])
       /\ jobs[j].sam_result # << >> => Consistent(jobs[j].sam_result[1])
  /\ \A j \in DOMAIN results : Consistent(results[j])
  /\ \A raw \in RawPersons(BoxA), o \in Answers :
       Consistent(ProcessPerson(raw, 0, TRUE, o).result)

\* the verification of a job suspected of both items raised and the
\* fallback result is recorded, while another job's verification found the
\* helmet and its recorded result is no violation
C39_Witness ==
  /\ Len(jobs) = 2
  /\ 1 \in raised
  /\ jobs[1].violation_type = "both_missing"
  /\ IsComplete(results, 1)
  /\ results[1].violation_type = "both_missing"
  /\ results[1].yolo_was_correct
  /\ 2 \notin raised
  /\ jobs[2].violation_type = "no_helmet"
  /\ IsComplete(results, 2)
  /\ ~results[2].is_violation
  /\ results[2].violation_type = None

(* ---------------------------------------------------------------------- *)
(* The tracker's counters                                                  *)
(* ---------------------------------------------------------------------- *)
\* get_stats of the tracker: the counters and the number of active tracks
TrackerGetStats(ts) ==
  [total_violations_detected |-> ts.stats.total_violations_detected,
   violations_stored |-> ts.stats.violations_stored,
   violations_deduplicated |-> ts.stats.violations_deduplicated,
   unique_persons_tracked |-> ts.stats.unique_persons_tracked,
   active_tracks |-> Cardinality(DOMAIN ts.tracks)]

\* C40: between resets and after them, total_violations_detected =
\* violations_stored + violations_deduplicated, a detection with a
\* malformed bbox changes none of the counters, unique_persons_tracked is
\* the number of track ids allocated (the next track id, every track having
\* a smaller one), and the number of active tracks never exceeds
\* unique_persons_tracked.
C40_CountersConsistent ==
  LET s == TrackerGetStats(TrackerState)
  IN  /\ s.total_violations_detected
           = s.violations_stored + s.violations_deduplicated
      /\ s.unique_persons_tracked = next_track_id
      /\ \A tid \in DOMAIN tracks : tid \in 0..(next_track_id - 1)
      /\ s.active_tracks <= s.unique_persons_tracked
      /\ \A bbox \in MalformedBoxes :
           ShouldStoreViolation(TrackerState, bbox, "no_helmet", now,
                                cooldown_seconds).ts = TrackerState

\* detections were stored and deduplicated, one with a malformed bbox was
\* answered, and a track has been dropped since: fewer active tracks than
\* persons tracked
C40_Witness ==
  /\ stats.violations_stored >= 2
  /\ stats.violations_deduplicated >= 1
  /\ \E i \in 1..Len(hist) : hist[i].reason = "invalid_bbox"
  /\ Cardinality(DOMAIN tracks) < stats.unique_persons_tracked

====
